---------------------------- MODULE Spec2Model ----------------------------
(* A model of the webview-bundle core: the JSON manifest of the source    *)
(* store, the two-tier version resolution, the single-flight descriptor   *)
(* cache, the bundle protocol and the updater's install pipeline.         *)
(*                                                                         *)
(* Every asynchronous handler is cut at its suspension points: one action *)
(* per lock acquisition or I/O operation.  A task runs one call at a      *)
(* time; pc[t] is its position, call[t] the call, loc[t] its locals and   *)
(* ret[t] the value it returned.                                           *)
EXTENDS Integers, Sequences, FiniteSets, TLC

VARIABLES
  remote,       \* entries of the remote (ReadWrite) manifest
  builtin,      \* entries of the builtin (ReadOnly) manifest
  files,        \* bundle files on disk: <<tier, name, version>> -> bundle id
  descriptors,  \* BundleSource.descriptors: name -> cell id
  cells,        \* the OnceCells: cell id -> [value, permit]
  arcs,         \* the Arc<BundleDescriptor> allocated so far: ref -> bundle id
  config,       \* UpdaterConfig: [policy, verifier]
  server,       \* the responses the remote may give to a download
  manifest_data, \* the OnceCell `data` of the remote manifest: [set, permit]
  local_cache,  \* LocalProtocol.cache: url -> [status, headers, body]
  pc, call, loc, ret,
  origin,       \* history: the remote manifest at construction
  snap,         \* history: per task, the store when its call began
  epoch,        \* history: per name, the number of unload_descriptor calls
  loads,        \* history: per returned ref, the epoch of its first return
  attempts,     \* history: per name, descriptor reads of the current burst of loads
  installed,    \* history: the <<name, version>> download_update has installed
  promoted      \* history: the names whose installed version was promoted

vars == <<remote, builtin, files, descriptors, cells, arcs, config, server,
          manifest_data, local_cache,
          pc, call, loc, ret,
          origin, snap, epoch, loads, attempts, installed, promoted>>

store  == <<remote, builtin, files>>
cache  == <<descriptors, cells, arcs>>
setup  == <<config, server, manifest_data, local_cache>>
ghosts == <<origin, epoch, loads, attempts, installed, promoted>>

---------------------------------------------------------------------------
(* Bounds and domains *)

MaxRefs == 3      \* Arc<BundleDescriptor> allocations per run
MaxUnloads == 2   \* unload_descriptor calls per run
MaxReads == 2     \* descriptor reads of a burst after which no load begins

Tasks == {"t1", "t2"}
Names == {"app", "lib"}
Versions == {"v1", "v2"}
None == "None"

Metas == {[integrity |-> None, signature |-> None],
          [integrity |-> "d2", signature |-> None]}

Put(f, k, v) == [x \in DOMAIN f \cup {k} |-> IF x = k THEN v ELSE f[x]]
Drop(f, k) == [x \in DOMAIN f \ {k} |-> f[x]]
Empty == [x \in {} |-> None]

Ok(v) == [ok |-> TRUE, val |-> v]
Err(e) == [ok |-> FALSE, val |-> e]

\* equality of two results; the values are compared only when both are Ok
\* or both are Err
RetEq(a, b) == a.ok = b.ok /\ a.val = b.val

---------------------------------------------------------------------------
(* The manifest: BundleManifestData.entries as a function from the bundle *)
(* names it lists to [versions, current_version].                         *)

ManifestEntries(names) ==
  UNION { [ns -> UNION { [versions : [vs -> Metas], current_version : vs]
                         : vs \in SUBSET Versions \ {{}} }]
          : ns \in SUBSET names }

ContainsEntry(d, b, v) == b \in DOMAIN d /\ v \in DOMAIN d[b].versions

LoadCurrentVersion(d, b) == IF b \in DOMAIN d THEN d[b].current_version ELSE None

LoadMetadata(d, b, v) == IF ContainsEntry(d, b, v) THEN d[b].versions[v] ELSE None

\* the write half of update_current_version: entry(b).and_modify(set current)
SetCurrentVersion(d, b, v) ==
  IF b \in DOMAIN d THEN [d EXCEPT ![b].current_version = v] ELSE d

\* insert_entry that replaces the metadata of a version already listed
InsertEntryDataOverwrite(d, b, v, m) ==
  IF b \in DOMAIN d
    THEN [d EXCEPT ![b].versions = Put(@, v, m)]
    ELSE Put(d, b, [versions |-> Put(Empty, v, m), current_version |-> v])

\* insert_entry that makes every inserted version the current one
InsertEntryDataPromotes(d, b, v, m) ==
  IF b \in DOMAIN d
    THEN IF v \in DOMAIN d[b].versions
           THEN d
           ELSE [d EXCEPT ![b].versions = Put(@, v, m), ![b].current_version = v]
    ELSE Put(d, b, [versions |-> Put(Empty, v, m), current_version |-> v])

InsertEntryData(d, b, v, m) ==
  IF b \in DOMAIN d
    THEN IF v \in DOMAIN d[b].versions
           THEN d
           ELSE [d EXCEPT ![b].versions = Put(@, v, m)]
    ELSE Put(d, b, [versions |-> Put(Empty, v, m), current_version |-> v])

InsertEntryResult(d, b, v) == Ok(~ContainsEntry(d, b, v))

RemoveEntryDataUnguarded(d, b, v) ==
  IF b \in DOMAIN d THEN [d EXCEPT ![b].versions = Drop(@, v)] ELSE d

RemoveEntryData(d, b, v) ==
  IF b \in DOMAIN d /\ d[b].current_version # v
    THEN [d EXCEPT ![b].versions = Drop(@, v)]
    ELSE d

\* remove_entry that answers Ok(true) whenever the bundle is listed
RemoveEntryResultTrue(d, b, v) ==
  IF b \in DOMAIN d
    THEN IF d[b].current_version = v
           THEN Err("BundleCannotBeRemoved")
           ELSE Ok(TRUE)
    ELSE Ok(FALSE)

RemoveEntryResult(d, b, v) ==
  IF b \in DOMAIN d
    THEN IF d[b].current_version = v
           THEN Err("BundleCannotBeRemoved")
           ELSE Ok(v \in DOMAIN d[b].versions)
    ELSE Ok(FALSE)

---------------------------------------------------------------------------
(* The bundle container.  A bundle is named by an id; Content gives its   *)
(* entries in the builder's iteration order.  Bytes are naturals; the     *)
(* bytes of the header and index regions are written Meta, a value no     *)
(* entry payload holds.                                                   *)

BundleIds == {"b1", "b2", "b3", "b4"}
Corrupt == "corrupt"
Paths == {"/index.html", "/a.js", "/nope"}

\* the header map an entry stores: header name -> value
NoHeaders == [x \in {} |-> ""]
StoredHeaders == [x \in {"cache-control", "content-type"} |->
                    IF x = "cache-control" THEN "no-store" ELSE "text/plain"]
Meta == -1

Content(id) ==
  CASE id = "b1" -> << [path |-> "/index.html", content_type |-> "text/html",
                        headers |-> NoHeaders, body |-> <<1, 0>>] >>
    [] id = "b2" -> << [path |-> "/index.html", content_type |-> "text/html",
                        headers |-> NoHeaders, body |-> <<1, 1>>] >>
    [] id = "b3" -> << [path |-> "/a.js", content_type |-> "text/javascript",
                        headers |-> NoHeaders, body |-> <<7>>],
                       [path |-> "/index.html", content_type |-> "text/html",
                        headers |-> NoHeaders, body |-> <<1, 1>>] >>
    [] id = "b4" -> << [path |-> "/index.html", content_type |-> "text/html",
                        headers |-> StoredHeaders, body |-> <<3, 1, 4, 1, 5>>] >>

CHECKSUM_LEN == 4
END_OFFSET == 17

\* lz4_flex compress_prepend_size / decompress_size_prepended on short
\* payloads: a 4-byte little-endian size, then the literals
Compress(body) == <<Len(body), 0, 0, 0>> \o body

Decompress(buf) ==
  IF /\ Len(buf) >= 4
     /\ \A i \in 1..Len(buf) : buf[i] >= 0
     /\ buf[1] = Len(buf) - 4 /\ buf[2] = 0 /\ buf[3] = 0 /\ buf[4] = 0
    THEN Ok(SubSeq(buf, 5, Len(buf)))
    ELSE Err("DecompressError")

RECURSIVE SumSeq(_)
SumSeq(s) == IF s = <<>> THEN 0 ELSE Head(s) + SumSeq(Tail(s))

\* the 32-bit checksum of a byte string, as its 4 big-endian bytes
ChecksumBytes(buf) == <<0, 0, 0, SumSeq(buf) % 256>>

\* BundleBuilder::build_index: offsets advance by len + CHECKSUM_LEN
RECURSIVE BuildIndex(_, _)
BuildIndex(entries, offset) ==
  IF entries = <<>>
    THEN Empty
    ELSE LET e == Head(entries)
             len == Len(Compress(e.body))
         IN Put(BuildIndex(Tail(entries), offset + len + CHECKSUM_LEN),
                e.path,
                [offset |-> offset, len |-> len, content_type |-> e.content_type,
                 content_length |-> Len(e.body), headers |-> e.headers])

\* build_data walking the entries the other way round
RECURSIVE BuildDataReversed(_)
BuildDataReversed(entries) ==
  IF entries = <<>>
    THEN <<>>
    ELSE LET c == Compress(Head(entries).body)
         IN BuildDataReversed(Tail(entries)) \o c \o ChecksumBytes(c)

\* BundleBuilder::build_data: each payload followed by its checksum
RECURSIVE BuildData(_)
BuildData(entries) ==
  IF entries = <<>>
    THEN <<>>
    ELSE LET c == Compress(Head(entries).body)
         IN c \o ChecksumBytes(c) \o BuildData(Tail(entries))

\* the byte length of the encoded index mapping: a count, then per entry the
\* length-prefixed path, offset, len, length-prefixed content type,
\* content length, header count and the length-prefixed headers (one-byte
\* varints)
RECURSIVE HeadersSize(_)
HeadersSize(h) ==
  IF DOMAIN h = {}
    THEN 0
    ELSE LET k == CHOOSE x \in DOMAIN h : TRUE
         IN (1 + Len(k)) + (1 + Len(h[k])) + HeadersSize(Drop(h, k))

RECURSIVE IndexSize(_)
IndexSize(entries) ==
  IF entries = <<>>
    THEN 1
    ELSE (1 + Len(Head(entries).path)) + 1 + 1
         + (1 + Len(Head(entries).content_type)) + 1 + 1
         + HeadersSize(Head(entries).headers)
         + IndexSize(Tail(entries))

Descriptor(id) ==
  [index_size |-> IndexSize(Content(id)), index |-> BuildIndex(Content(id), 0)]

IndexEndOffset(d) == END_OFFSET + d.index_size + CHECKSUM_LEN

\* the file BundleWriter writes: header, index and its checksum, data
FileBytes(id) ==
  IF id = Corrupt
    THEN [i \in 1..END_OFFSET |-> Meta]
    ELSE [i \in 1..IndexEndOffset(Descriptor(id)) |-> Meta] \o BuildData(Content(id))

ReadExact(bytes, pos, n) ==
  IF pos + n <= Len(bytes)
    THEN Ok(SubSeq(bytes, pos + 1, pos + n))
    ELSE Err("UnexpectedEof")

\* AsyncBundleDataReader::read_entry_data at base_offset
ReadEntryData(bytes, base, entry) ==
  LET r == ReadExact(bytes, base + entry.offset, entry.len)
  IN IF r.ok THEN Decompress(r.val) ELSE r

\* BundleDescriptor::async_get_data: the descriptor's own index_end_offset
\* is the base offset into whatever file the reader is over
NoData == <<Meta>>

AsyncGetData(d, bytes, path) ==
  IF path \notin DOMAIN d.index
    THEN Ok(NoData)
    ELSE ReadEntryData(bytes, IndexEndOffset(d), d.index[path])

\* the entry a bundle stores for a path
EntryOf(id, path) ==
  LET hit == { i \in 1..Len(Content(id)) : Content(id)[i].path = path }
  IN Content(id)[CHOOSE i \in hit : TRUE]

\* the body a bundle stores for a path
BodyOf(id, path) ==
  LET hit == { i \in 1..Len(Content(id)) : Content(id)[i].path = path }
  IN Content(id)[CHOOSE i \in hit : TRUE].body

PathsOf(id) == { Content(id)[i].path : i \in 1..Len(Content(id)) }

---------------------------------------------------------------------------
(* The container byte for byte: the header, the index as bincode encodes
   it (standard configuration, big-endian, variable-length integers), and
   the readers over bytes that need not be what a writer wrote *)

\* the bytes of the strings bundles are built from
Utf8(s) ==
  CASE s = "/index.html" -> <<47, 105, 110, 100, 101, 120, 46, 104, 116, 109, 108>>
    [] s = "/a.js" -> <<47, 97, 46, 106, 115>>
    [] s = "/nope" -> <<47, 110, 111, 112, 101>>
    [] s = "text/html" -> <<116, 101, 120, 116, 47, 104, 116, 109, 108>>
    [] s = "text/javascript" -> <<116, 101, 120, 116, 47, 106, 97, 118, 97, 115, 99, 114, 105, 112, 116>>
    [] s = "text/plain" -> <<116, 101, 120, 116, 47, 112, 108, 97, 105, 110>>
    [] s = "cache-control" -> <<99, 97, 99, 104, 101, 45, 99, 111, 110, 116, 114, 111, 108>>
    [] s = "no-store" -> <<110, 111, 45, 115, 116, 111, 114, 101>>
    [] s = "content-type" -> <<99, 111, 110, 116, 101, 110, 116, 45, 116, 121, 112, 101>>

\* Header::MAGIC and Version::V1.bytes()
MAGIC == <<240, 159, 140, 144, 240, 159, 142, 129>>
V1 == 1
CHECKSUM_OFFSET == 13

\* u32::to_be_bytes of a size below 2^24
BeBytes(n) == <<0, (n \div 65536) % 256, (n \div 256) % 256, n % 256>>

\* u32::from_be_bytes, the highest byte kept apart so that the value stays
\* in range
FromBeBytes(buf) ==
  IF buf[1] = 0 THEN buf[2] * 65536 + buf[3] * 256 + buf[4]
  ELSE 16777216 + buf[2] * 65536 + buf[3] * 256 + buf[4]

\* a length or offset as bincode writes it: one byte below 251, the marker
\* 251 and two bytes above
Varint(n) == IF n < 251 THEN <<n>> ELSE <<251, n \div 256, n % 256>>

\* a byte string with its length in front
Prefixed(bytes) == Varint(Len(bytes)) \o bytes

\* the (name, value) pairs of a header map, in the order names lists them
RECURSIVE EncodePairs(_, _)
EncodePairs(headers, names) ==
  IF names = <<>> THEN <<>>
  ELSE Prefixed(Utf8(Head(names))) \o Prefixed(Utf8(headers[Head(names)]))
       \o EncodePairs(headers, Tail(names))

\* some order of the elements of a set
RECURSIVE SeqOf(_)
SeqOf(S) ==
  IF S = {} THEN <<>>
  ELSE LET x == CHOOSE y \in S : TRUE IN <<x>> \o SeqOf(S \ {x})

\* IndexEntry::encode without its headers
EncodeEntryBare(e) ==
  Varint(e.offset) \o Varint(e.len) \o Prefixed(Utf8(e.content_type))
  \o Varint(e.content_length) \o Varint(0)

\* IndexEntry::encode: offset, len, content type, content length, headers
EncodeEntry(e) ==
  Varint(e.offset) \o Varint(e.len) \o Prefixed(Utf8(e.content_type))
  \o Varint(e.content_length)
  \o Varint(Cardinality(DOMAIN e.headers))
  \o EncodePairs(e.headers, SeqOf(DOMAIN e.headers))

RECURSIVE EncodeEntries(_, _)
EncodeEntries(index, paths) ==
  IF paths = <<>> THEN <<>>
  ELSE Prefixed(Utf8(Head(paths))) \o EncodeEntry(index[Head(paths)])
       \o EncodeEntries(index, Tail(paths))

\* write_index: the map's length, then key and entry in the order the map
\* iterates
EncodeIndex(index, paths) == Varint(Len(paths)) \o EncodeEntries(index, paths)

\* HeaderWriter::write: magic, version, index size, checksum of those 13
HeaderBytes(index_size) ==
  LET bytes == MAGIC \o <<V1>> \o BeBytes(index_size)
  IN bytes \o ChecksumBytes(bytes)

\* IndexWriter::write: the encoded index, then its checksum
IndexBytes(index, paths) ==
  LET bytes == EncodeIndex(index, paths)
  IN bytes \o ChecksumBytes(bytes)

\* the entries of a mapping in the order order lists its paths
Entries(id, order) == [i \in 1..Len(order) |-> EntryOf(id, order[i])]

\* BundleBuilder::build with the checksum counted into the index size
BuildSizeWithChecksum(id, order) ==
  LET index == BuildIndex(Entries(id, order), 0)
  IN [index_size |-> Len(IndexBytes(index, order)),
      index |-> index,
      data |-> BuildData(Entries(id, order))]

\* BundleBuilder::build: index, header and data from the entries in the
\* order the builder's map iterates
Build(id, order) ==
  LET index == BuildIndex(Entries(id, order), 0)
  IN [index_size |-> Len(IndexBytes(index, order)) - CHECKSUM_LEN,
      index |-> index,
      data |-> BuildData(Entries(id, order))]

\* BundleWriter::write: the bytes written and the count returned; the index
\* is encoded in an order of its own
WriteBundle(bundle, paths) ==
  LET header == HeaderBytes(bundle.index_size)
      index == IndexBytes(bundle.index, paths)
  IN [bytes |-> header \o index \o bundle.data,
      written |-> Len(header) + Len(index) + Len(bundle.data)]

\* a value decoded and the position after it, or the failure to decode
At(val, pos) == [ok |-> TRUE, val |-> val, pos |-> pos]
Bad == [ok |-> FALSE, val |-> "Decode", pos |-> 0]

\* a value no length of a file reaches
Huge == 1073741824

\* a variable-length integer at pos: one byte below 251; after 251, 252 and
\* 253 the big-endian value of 2, 4 and 8 bytes; 254 and 255 do not decode
DecodeVarint(bytes, pos) ==
  IF pos >= Len(bytes) THEN Bad
  ELSE LET b == bytes[pos + 1]
       IN IF b < 251 THEN At(b, pos + 1)
          ELSE IF b = 251
            THEN IF pos + 3 > Len(bytes) THEN Bad
                 ELSE At(bytes[pos + 2] * 256 + bytes[pos + 3], pos + 3)
          ELSE IF b = 252
            THEN IF pos + 5 > Len(bytes) THEN Bad
                 ELSE At(FromBeBytes(SubSeq(bytes, pos + 2, pos + 5)), pos + 5)
          ELSE IF b = 253
            THEN IF pos + 9 > Len(bytes) THEN Bad
                 ELSE IF \E i \in 2..5 : bytes[pos + i] # 0 THEN At(Huge, pos + 9)
                 ELSE At(FromBeBytes(SubSeq(bytes, pos + 6, pos + 9)), pos + 9)
          ELSE Bad

\* a length and that many bytes
DecodeBytes(bytes, pos) ==
  LET after(n) ==
        IF ~n.ok THEN Bad
        ELSE IF n.pos + n.val > Len(bytes) THEN Bad
        ELSE At(SubSeq(bytes, n.pos + 1, n.pos + n.val), n.pos + n.val)
  IN after(DecodeVarint(bytes, pos))

\* String::from_utf8: ASCII bytes, and lead bytes followed by as many
\* continuation bytes as they announce
RECURSIVE Utf8Valid(_)
Utf8Valid(b) ==
  LET cont(i) == i <= Len(b) /\ b[i] >= 128 /\ b[i] < 192
  IN IF b = <<>> THEN TRUE
     ELSE IF b[1] < 128 THEN Utf8Valid(Tail(b))
     ELSE IF b[1] >= 194 /\ b[1] < 224 /\ cont(2) THEN Utf8Valid(SubSeq(b, 3, Len(b)))
     ELSE IF b[1] >= 224 /\ b[1] < 240 /\ cont(2) /\ cont(3)
       THEN Utf8Valid(SubSeq(b, 4, Len(b)))
     ELSE IF b[1] >= 240 /\ b[1] < 245 /\ cont(2) /\ cont(3) /\ cont(4)
       THEN Utf8Valid(SubSeq(b, 5, Len(b)))
     ELSE FALSE

DecodeString(bytes, pos) ==
  LET checked(r) == IF r.ok /\ Utf8Valid(r.val) THEN r ELSE Bad
  IN checked(DecodeBytes(bytes, pos))

\* HeaderName::try_from: letters, digits and the token punctuation, upper
\* case turned to lower case; not empty
TokenBytes ==
  (97..122) \cup (65..90) \cup (48..57)
  \cup {33, 35, 36, 37, 38, 39, 42, 43, 45, 46, 94, 95, 96, 124, 126}

HeaderNameValid(b) == b # <<>> /\ \A i \in 1..Len(b) : b[i] \in TokenBytes

Lower(b) == [i \in 1..Len(b) |-> IF b[i] >= 65 /\ b[i] <= 90 THEN b[i] + 32 ELSE b[i]]

\* HeaderValue::from_bytes: a tab or a byte from 32 on other than 127
HeaderValueValid(b) == \A i \in 1..Len(b) : b[i] = 9 \/ (b[i] >= 32 /\ b[i] # 127)

\* the header map of decoded pairs, a name appended twice keeping its pairs
RECURSIVE HeaderMapOf(_)
HeaderMapOf(pairs) ==
  IF pairs = <<>> THEN Empty
  ELSE LET rest == HeaderMapOf(SubSeq(pairs, 1, Len(pairs) - 1))
           last == pairs[Len(pairs)]
           name == Lower(last[1])
       IN Put(rest, name,
              IF name \in DOMAIN rest THEN Append(rest[name], last[2]) ELSE <<last[2]>>)

RECURSIVE DecodeTuple(_, _, _, _)
RECURSIVE DecodePairs(_, _, _, _)
RECURSIVE DecodeEntry(_, _)

\* one field of a tuple, by its type
DecodeField(kind, bytes, pos) ==
  CASE kind = "u64" -> DecodeVarint(bytes, pos)
    [] kind = "bytes" -> DecodeBytes(bytes, pos)
    [] kind = "string" -> DecodeString(bytes, pos)
    [] kind = "pairs" ->
         LET counted(n) == IF ~n.ok THEN Bad ELSE DecodePairs(bytes, n.pos, n.val, <<>>)
         IN counted(DecodeVarint(bytes, pos))
    [] kind = "entry" -> DecodeEntry(bytes, pos)

\* the fields of a tuple one after another from pos on, the first that
\* does not decode failing the whole
DecodeTuple(bytes, pos, kinds, acc) ==
  IF kinds = <<>> THEN At(acc, pos)
  ELSE LET next(r) ==
             IF ~r.ok THEN Bad
             ELSE DecodeTuple(bytes, r.pos, Tail(kinds), Append(acc, r.val))
       IN next(DecodeField(Head(kinds), bytes, pos))

\* n (name, value) pairs from pos on, added to the pairs acc
DecodePairs(bytes, pos, n, acc) ==
  IF n = 0 THEN At(acc, pos)
  ELSE LET next(pair) ==
             IF ~pair.ok THEN Bad
             ELSE DecodePairs(bytes, pair.pos, n - 1, Append(acc, pair.val))
       IN next(DecodeTuple(bytes, pos, <<"string", "bytes">>, <<>>))

\* IndexEntry::decode: offset, len, content type, content length and the
\* header pairs, then the content type and the headers validated
DecodeEntry(bytes, pos) ==
  LET entry(t) ==
        IF ~t.ok THEN Bad
        ELSE IF ~Utf8Valid(t.val[3]) THEN Bad
        ELSE IF \E i \in 1..Len(t.val[5]) :
                  ~HeaderNameValid(t.val[5][i][1]) \/ ~HeaderValueValid(t.val[5][i][2])
          THEN Bad
        ELSE At([offset |-> t.val[1], len |-> t.val[2],
                 content_type |-> t.val[3],
                 content_length |-> t.val[4],
                 headers |-> HeaderMapOf(t.val[5])], t.pos)
  IN entry(DecodeTuple(bytes, pos, <<"u64", "u64", "bytes", "u64", "pairs">>, <<>>))

\* n (path, entry) pairs from pos on, inserted into the map acc
RECURSIVE DecodeMap(_, _, _, _)
DecodeMap(bytes, pos, n, acc) ==
  IF n = 0 THEN At(acc, pos)
  ELSE LET next(item) ==
             IF ~item.ok THEN Bad
             ELSE DecodeMap(bytes, item.pos, n - 1, Put(acc, item.val[1], item.val[2]))
       IN next(DecodeTuple(bytes, pos, <<"string", "entry">>, <<>>))

\* parse_index: the map decoded from the front of the buffer; bytes after
\* it are not looked at
ParseIndex(buf) ==
  LET counted(n) ==
        IF ~n.ok THEN Err("Decode")
        ELSE LET decoded(map) == IF map.ok THEN Ok(map.val) ELSE Err("Decode")
             IN decoded(DecodeMap(buf, n.pos, n.val, Empty))
  IN counted(DecodeVarint(buf, 0))

\* HeaderReader::read with the checksum verified before anything else
ReadHeaderChecksumFirst(bytes, verify) ==
  LET total == ReadExact(bytes, 0, CHECKSUM_OFFSET)
      checksum == ReadExact(bytes, CHECKSUM_OFFSET, CHECKSUM_LEN)
  IN IF ~total.ok THEN total
     ELSE IF ~checksum.ok THEN checksum
     ELSE IF verify /\ checksum.val # ChecksumBytes(total.val)
       THEN Err("InvalidHeaderChecksum")
     ELSE IF SubSeq(total.val, 1, 8) # MAGIC THEN Err("InvalidMagicNum")
     ELSE IF total.val[9] # V1 THEN Err("InvalidVersion")
     ELSE Ok([index_size |-> FromBeBytes(SubSeq(total.val, 10, 13))])

\* HeaderReader::read: magic, version, index size, checksum, and the
\* checksum of the first 13 bytes compared when verify_checksum is set
ReadHeader(bytes, verify) ==
  LET magic == ReadExact(bytes, 0, 8)
      version == ReadExact(bytes, 8, 1)
      index_size == ReadExact(bytes, 9, 4)
      checksum == ReadExact(bytes, CHECKSUM_OFFSET, CHECKSUM_LEN)
      total == ReadExact(bytes, 0, CHECKSUM_OFFSET)
  IN IF ~magic.ok THEN magic
     ELSE IF magic.val # MAGIC THEN Err("InvalidMagicNum")
     ELSE IF ~version.ok THEN version
     ELSE IF version.val # <<V1>> THEN Err("InvalidVersion")
     ELSE IF ~index_size.ok THEN index_size
     ELSE IF ~checksum.ok THEN checksum
     ELSE IF verify /\ checksum.val # ChecksumBytes(total.val)
       THEN Err("InvalidHeaderChecksum")
     ELSE Ok([index_size |-> FromBeBytes(index_size.val)])

\* IndexReader::read: the index decoded, then its checksum read, and
\* compared when verify_checksum is set
ReadIndex(bytes, header, verify) ==
  LET verified(buf, index, checksum) ==
        IF ~index.ok THEN index
        ELSE IF ~checksum.ok THEN checksum
        ELSE IF verify /\ checksum.val # ChecksumBytes(buf.val)
          THEN Err("InvalidIndexChecksum")
        ELSE index
      parsed(buf) ==
        IF ~buf.ok THEN buf
        ELSE verified(buf, ParseIndex(buf.val),
                      ReadExact(bytes, END_OFFSET + header.index_size, CHECKSUM_LEN))
  IN parsed(ReadExact(bytes, END_OFFSET, header.index_size))

\* BundleReader::read of a descriptor
ReadDescriptor(bytes, verify) ==
  LET described(header, index) ==
        IF ~index.ok THEN index
        ELSE Ok([index_size |-> header.val.index_size, index |-> index.val])
      indexed(header) ==
        IF ~header.ok THEN header
        ELSE described(header, ReadIndex(bytes, header.val, verify))
  IN indexed(ReadHeader(bytes, verify))

\* BundleDescriptor::get_data over the file the descriptor was read from
GetData(d, bytes, path) ==
  IF Utf8(path) \notin DOMAIN d.index
    THEN Ok(NoData)
    ELSE ReadEntryData(bytes, IndexEndOffset(d), d.index[Utf8(path)])

\* BundleReader::read_data: seek to index_end_offset, then read_to_end
ReadData(bytes, d) == SubSeq(bytes, IndexEndOffset(d) + 1, Len(bytes))

\* Bundle::get_data with the base offset of the file instead of 0
BundleGetDataFileBase(d, data, path) ==
  IF Utf8(path) \notin DOMAIN d.index
    THEN Ok(NoData)
    ELSE ReadEntryData(data, IndexEndOffset(d), d.index[Utf8(path)])

\* Bundle::get_data: the entry read at base offset 0 of the data section
\* the bundle holds
BundleGetData(d, data, path) ==
  IF Utf8(path) \notin DOMAIN d.index
    THEN Ok(NoData)
    ELSE ReadEntryData(data, 0, d.index[Utf8(path)])

---------------------------------------------------------------------------
(* Version resolution and file paths of the source *)

NoVer == [kind |-> None, version |-> None]

\* load_version, given what the two manifests answer
ResolveBuiltinFirst(rv, bv) ==
  IF bv # None THEN [kind |-> "Builtin", version |-> bv]
  ELSE IF rv # None THEN [kind |-> "Remote", version |-> rv]
  ELSE NoVer

Resolve(rv, bv) ==
  IF rv # None THEN [kind |-> "Remote", version |-> rv]
  ELSE IF bv # None THEN [kind |-> "Builtin", version |-> bv]
  ELSE NoVer

LoadVersion(b) ==
  Resolve(LoadCurrentVersion(remote, b), LoadCurrentVersion(builtin, b))

\* get_filepath: <dir>/<name>/<name>_<version>.wvb
FilePath(sv, b) == <<sv.kind, b, sv.version>>

---------------------------------------------------------------------------
(* Integrity and signatures.  An integrity string is the digest of the    *)
(* raw bytes it was computed over; a signature is valid for the one       *)
(* integrity string it signs.                                             *)

Digest(id) ==
  CASE id = "b1" -> "d1"
    [] id = "b2" -> "d2"
    [] id = "b3" -> "d3"
    [] id = "b4" -> "d4"

\* IntegrityChecker::check(integrity, data)
IntegrityCheck(integrity, data) == integrity = Digest(data)

SignOf(integrity) ==
  CASE integrity = "d1" -> "s1"
    [] integrity = "d2" -> "s2"
    [] integrity = "d3" -> "s3"

\* Verifier::verify(bundle, message, signature): a signature that does not
\* parse is an error, any other is compared with the key
VerifySignature(message, signature) ==
  IF signature = "malformed"
    THEN Err("InvalidSignature")
    ELSE Ok(signature = SignOf(message))

Policies == {"Strict", "Optional", "Disabled"}
Configs == [policy : Policies, verifier : {None, "key"}]
NoConfig == [policy |-> "Disabled", verifier |-> None]

\* the integrity stage of download_update; a rejection is the checker's own
\* error, passed on
IntegrityStageLax(policy, integrity, data) ==
  IF policy = "Strict"
    THEN IF integrity # None
           THEN [checked |-> TRUE,
                 err |-> IF IntegrityCheck(integrity, data) THEN None
                         ELSE "IntegrityVerifyFailed"]
           ELSE [checked |-> FALSE, err |-> "IntegrityVerifyFailed"]
    ELSE [checked |-> FALSE, err |-> None]

IntegrityStage(policy, integrity, data) ==
  IF policy \in {"Strict", "Optional"}
    THEN IF integrity # None
           THEN [checked |-> TRUE,
                 err |-> IF IntegrityCheck(integrity, data) THEN None
                         ELSE "IntegrityVerifyFailed"]
           ELSE IF policy = "Strict"
                  THEN [checked |-> FALSE, err |-> "IntegrityVerifyFailed"]
                  ELSE [checked |-> FALSE, err |-> None]
    ELSE [checked |-> FALSE, err |-> None]

\* the signature stage of download_update
SignatureStageUnverified(verifier, integrity, signature) ==
  IF verifier = None THEN None
  ELSE IF integrity = None THEN "IntegrityRequired"
  ELSE IF signature = None THEN "SignatureNotExists"
  ELSE LET r == VerifySignature(integrity, signature)
       IN IF ~r.ok THEN r.val ELSE None

SignatureStage(verifier, integrity, signature) ==
  IF verifier = None THEN None
  ELSE IF integrity = None THEN "IntegrityRequired"
  ELSE IF signature = None THEN "SignatureNotExists"
  ELSE LET r == VerifySignature(integrity, signature)
       IN IF ~r.ok THEN r.val
          ELSE IF ~r.val THEN "SignatureVerifyFailed"
          ELSE None

\* both stages in the order of the code: the policy's integrity check, then
\* the signature
VerifyStage(cfg, info) ==
  LET i == IntegrityStage(cfg.policy, info.integrity, info.data)
  IN IF i.err # None
       THEN i
       ELSE [checked |-> i.checked,
             err |-> SignatureStage(cfg.verifier, info.integrity, info.signature)]

---------------------------------------------------------------------------
(* Tasks *)

MkCall(op, name, version, arg) ==
  [op |-> op, name |-> name, version |-> version, arg |-> arg]

NoCall == MkCall(None, None, None, None)
NoInfo == [name |-> None, version |-> None, integrity |-> None,
           signature |-> None, data |-> None]
NoLoc == [cell |-> 0, ver |-> NoVer, desc |-> 0, phase |-> None,
          info |-> NoInfo, checked |-> FALSE, end |-> 0,
          plan |-> [status |-> 0, headers |-> [x \in {} |-> ""], final |-> FALSE,
                    slice |-> [on |-> FALSE, start |-> 0, end |-> 0],
                    parts |-> <<>>, boundary |-> ""],
          built |-> [index_size |-> 0, index |-> Empty, data |-> <<>>],
          out |-> [bytes |-> <<>>, written |-> 0],
          received |-> [status |-> 0, headers |-> [x \in {} |-> ""], body |-> <<>>]]
NoSnap == [remote |-> Empty, files |-> Empty, epoch |-> 0, cached |-> 0, cell |-> 0]
NoAttempts == [reads |-> 0, failed |-> 0]

ManifestCalls ==
  { MkCall("insert_entry", b, v, m) : b \in Names, v \in Versions, m \in Metas }
  \cup { MkCall(op, b, v, None) :
           op \in {"update_current_version", "remove_entry"},
           b \in Names, v \in Versions }

Entry(op) ==
  CASE op = "insert_entry" -> "insert"
    [] op \in {"update_current_version", "update_version"} -> "ucv_check"
    [] op = "remove_entry" -> "remove"
    [] op \in {"load_version", "fetch"} -> "lv"
    [] op = "load_descriptor" -> "ld_get"
    [] op = "unload_descriptor" -> "unload"
    [] op = "write_remote_bundle" -> "w_file"
    [] op = "download_update" -> "du_download"
    [] op = "handle" -> "h_method"
    [] op = "adjust_end" -> "adjust"
    [] op = "random_boundary" -> "boundary"
    [] op = "read" -> "c_build"
    [] op = "get_update" -> "gu_info"
    [] op = "save" -> "sv_raw"
    [] op = "list_entries" -> "m_get"
    [] op = "local_handle" -> "lp_resolve"

Idle(t) == pc[t] \in {"idle", "done"}

\* the reference the cache holds for a name, 0 when it holds none
Cached(b) == IF b \in DOMAIN descriptors THEN cells[descriptors[b]].value ELSE 0

Loading(u, b) ==
  ~Idle(u) /\ call[u].op = "load_descriptor" /\ call[u].name = b

Begin(t, c) ==
  /\ Idle(t)
  /\ pc' = [pc EXCEPT ![t] = Entry(c.op)]
  /\ call' = [call EXCEPT ![t] = c]
  /\ loc' = [loc EXCEPT ![t] = IF c.op = "write_remote_bundle"
                                  THEN [NoLoc EXCEPT !.info = c.arg]
                                  ELSE NoLoc]
  /\ ret' = [ret EXCEPT ![t] = None]
  /\ snap' = [snap EXCEPT ![t] = [remote |-> remote, files |-> files,
                                  epoch |-> IF c.name \in Names THEN epoch[c.name] ELSE 0,
                                  cached |-> Cached(c.name),
                                  cell |-> IF c.name \in DOMAIN descriptors
                                             THEN descriptors[c.name] ELSE 0]]
  /\ attempts' = IF c.op = "load_descriptor" /\ \A u \in Tasks : ~Loading(u, c.name)
                   THEN [attempts EXCEPT ![c.name] = NoAttempts]
                   ELSE attempts
  /\ UNCHANGED <<store, cache, setup, origin, epoch, loads, installed, promoted>>

Return(t, r) ==
  /\ pc' = [pc EXCEPT ![t] = "done"]
  /\ ret' = [ret EXCEPT ![t] = r]

Goto(t, p) ==
  /\ pc' = [pc EXCEPT ![t] = p]
  /\ UNCHANGED ret

\* insert_entry: one critical section under the write lock
InsertEntry(t) ==
  /\ pc[t] = "insert"
  /\ remote' = InsertEntryData(remote, call[t].name, call[t].version, call[t].arg)
  /\ Return(t, InsertEntryResult(remote, call[t].name, call[t].version))
  /\ UNCHANGED <<builtin, files, cache, setup, call, loc, snap, ghosts>>

\* update_current_version that only checks that the bundle is listed
UpdateCheckBundleOnly(t) ==
  /\ pc[t] = "ucv_check"
  /\ IF call[t].name \in DOMAIN remote
       THEN Goto(t, "ucv_write")
       ELSE Return(t, Err("BundleEntryNotExists"))
  /\ UNCHANGED <<store, cache, setup, call, loc, snap, ghosts>>

\* update_current_version, first half: contains_entry under the read lock
UpdateCheck(t) ==
  /\ pc[t] = "ucv_check"
  /\ IF ContainsEntry(remote, call[t].name, call[t].version)
       THEN Goto(t, "ucv_write")
       ELSE Return(t, Err("BundleEntryNotExists"))
  /\ UNCHANGED <<store, cache, setup, call, loc, snap, ghosts>>

\* update_current_version, second half: the write lock, taken afresh
UpdateWrite(t) ==
  /\ pc[t] = "ucv_write"
  /\ remote' = SetCurrentVersion(remote, call[t].name, call[t].version)
  /\ Return(t, Ok(None))
  /\ promoted' = IF <<call[t].name, call[t].version>> \in installed
                   THEN promoted \cup {call[t].name}
                   ELSE promoted \ {call[t].name}
  /\ UNCHANGED <<builtin, files, cache, setup, call, loc, snap,
                 origin, epoch, loads, attempts, installed>>

\* remove_entry: one critical section under the write lock
RemoveEntry(t) ==
  /\ pc[t] = "remove"
  /\ remote' = RemoveEntryData(remote, call[t].name, call[t].version)
  /\ Return(t, RemoveEntryResult(remote, call[t].name, call[t].version))
  /\ UNCHANGED <<builtin, files, cache, setup, call, loc, snap, ghosts>>

ManifestStep(t) ==
  \/ InsertEntry(t)
  \/ UpdateCheck(t)
  \/ UpdateWrite(t)
  \/ RemoveEntry(t)

---------------------------------------------------------------------------
(* The source: version resolution, file access and the descriptor cache *)

\* an error that leaves get_or_try_init with the permit still taken
ReleaseHolds(t) == cells' = cells

\* an error leaving get_or_try_init drops the permit and leaves the cell empty
Release(t) ==
  cells' = IF loc[t].phase = "init"
             THEN [cells EXCEPT ![loc[t].cell].permit = None]
             ELSE cells

\* an error returned with the permit of the cell still taken
RaiseHolds(t, e) == Return(t, Err(e)) /\ ReleaseHolds(t)

Raise(t, e) == Return(t, Err(e)) /\ Release(t)

\* load_descriptor has the reference r to a descriptor of bundle id: the
\* call returns it, or handle goes on with it
Loaded(t, r, id) ==
  /\ loc' = [loc EXCEPT ![t].desc = r, ![t].phase = None,
                        ![t].end = epoch[call[t].name]]
  /\ IF call[t].op = "load_descriptor"
       THEN /\ Return(t, Ok(r))
            /\ loads' = IF r \in DOMAIN loads THEN loads
                        ELSE Put(loads, r, [epoch |-> epoch[call[t].name], id |-> id])
       ELSE /\ Goto(t, "h_entry")
            /\ UNCHANGED loads

\* load_descriptor, the fast path: a cell in the map that holds a value
LdGet(t) ==
  /\ pc[t] = "ld_get"
  /\ IF Cached(call[t].name) # 0
       THEN Loaded(t, Cached(call[t].name), arcs[Cached(call[t].name)].id)
       ELSE Goto(t, "ld_entry") /\ UNCHANGED <<loc, loads>>
  /\ UNCHANGED <<store, cache, setup, call, snap,
                 origin, epoch, attempts, installed, promoted>>

\* descriptors.entry(name).or_default(), cloned out of the map
LdEntry(t) ==
  /\ pc[t] = "ld_entry"
  /\ LET b == call[t].name
         fresh == Cardinality(DOMAIN cells) + 1
     IN IF b \in DOMAIN descriptors
          THEN /\ loc' = [loc EXCEPT ![t].cell = descriptors[b]]
               /\ UNCHANGED <<descriptors, cells>>
          ELSE /\ descriptors' = Put(descriptors, b, fresh)
               /\ cells' = Put(cells, fresh, [value |-> 0, permit |-> None])
               /\ loc' = [loc EXCEPT ![t].cell = fresh]
  /\ Goto(t, "ld_init")
  /\ UNCHANGED <<store, arcs, setup, call, snap, ghosts>>

\* get_or_try_init without the semaphore: every caller that finds the cell
\* empty runs the initializer
LdInitNoPermit(t) ==
  /\ pc[t] = "ld_init"
  /\ LET c == loc[t].cell
     IN IF cells[c].value # 0
          THEN Loaded(t, cells[c].value, arcs[cells[c].value].id) /\ UNCHANGED cells
          ELSE /\ loc' = [loc EXCEPT ![t].phase = "init"]
               /\ Goto(t, "lv")
               /\ UNCHANGED <<cells, loads>>
  /\ UNCHANGED <<store, descriptors, arcs, setup, call, snap,
                 origin, epoch, attempts, installed, promoted>>

\* get_or_try_init: a set cell answers at once; an empty one admits one
\* initializer at a time, the others wait for the permit
LdInit(t) ==
  /\ pc[t] = "ld_init"
  /\ LET c == loc[t].cell
     IN IF cells[c].value # 0
          THEN Loaded(t, cells[c].value, arcs[cells[c].value].id) /\ UNCHANGED cells
          ELSE /\ cells[c].permit = None
               /\ cells' = [cells EXCEPT ![c].permit = t]
               /\ loc' = [loc EXCEPT ![t].phase = "init"]
               /\ Goto(t, "lv")
               /\ UNCHANGED loads
  /\ UNCHANGED <<store, descriptors, arcs, setup, call, snap,
                 origin, epoch, attempts, installed, promoted>>

\* load_version: the remote manifest first, the builtin one as the fallback.
\* The builtin manifest is ReadOnly, so reading both in one step loses no
\* interleaving.
Lv(t) ==
  /\ pc[t] = "lv"
  /\ LET sv == LoadVersion(call[t].name)
     IN IF call[t].op = "load_version"
          THEN Return(t, Ok(sv)) /\ UNCHANGED <<loc, cells>>
          ELSE IF sv = NoVer
                 THEN Raise(t, "BundleNotFound") /\ UNCHANGED loc
                 ELSE /\ loc' = [loc EXCEPT ![t].ver = sv]
                      /\ Goto(t, "open")
                      /\ UNCHANGED cells
  /\ UNCHANGED <<store, descriptors, arcs, setup, call, snap, ghosts>>

\* fetch: open the resolved file and parse the whole bundle
OpenFetch(t) ==
  /\ pc[t] = "open" /\ call[t].op = "fetch"
  /\ LET key == FilePath(loc[t].ver, call[t].name)
     IN IF key \notin DOMAIN files THEN Return(t, Err("BundleNotFound"))
        ELSE IF files[key] = Corrupt THEN Return(t, Err("InvalidMagicNum"))
        ELSE Return(t, Ok(files[key]))
  /\ UNCHANGED <<store, cache, setup, call, loc, snap, ghosts>>

\* the initializer of the cell: fetch_descriptor, then Arc::new
OpenInit(t) ==
  /\ pc[t] = "open" /\ loc[t].phase = "init"
  /\ LET b == call[t].name
         key == FilePath(loc[t].ver, b)
         c == loc[t].cell
         r == Cardinality(DOMAIN arcs) + 1
         counted == IF snap[t].epoch = epoch[b] THEN 1 ELSE 0
     IN IF key \notin DOMAIN files
          THEN /\ Raise(t, "BundleNotFound")
               /\ UNCHANGED <<arcs, loc, loads, attempts>>
          ELSE IF files[key] = Corrupt
                 THEN /\ Raise(t, "InvalidMagicNum")
                      /\ attempts' = [attempts EXCEPT ![b].reads = @ + counted,
                                                      ![b].failed = @ + counted]
                      /\ UNCHANGED <<arcs, loc, loads>>
                 ELSE /\ r <= MaxRefs
                      /\ arcs' = Put(arcs, r, [id |-> files[key], cell |-> c])
                      /\ cells' = [cells EXCEPT ![c] = [value |-> r, permit |-> None]]
                      /\ attempts' = [attempts EXCEPT ![b].reads = @ + counted]
                      /\ Loaded(t, r, files[key])
  /\ UNCHANGED <<store, descriptors, setup, call, snap,
                 origin, epoch, installed, promoted>>

UnloadKeepsCell(t) ==
  /\ pc[t] = "unload"
  /\ Return(t, Ok(call[t].name \in DOMAIN descriptors))
  /\ epoch' = [epoch EXCEPT ![call[t].name] = @ + 1]
  /\ attempts' = [attempts EXCEPT ![call[t].name] = NoAttempts]
  /\ UNCHANGED <<store, cache, setup, call, loc, snap,
                 origin, loads, installed, promoted>>

\* unload_descriptor: descriptors.remove(name).is_some()
Unload(t) ==
  /\ pc[t] = "unload"
  /\ descriptors' = Drop(descriptors, call[t].name)
  /\ Return(t, Ok(call[t].name \in DOMAIN descriptors))
  /\ epoch' = [epoch EXCEPT ![call[t].name] = @ + 1]
  /\ attempts' = [attempts EXCEPT ![call[t].name] = NoAttempts]
  /\ UNCHANGED <<store, cells, arcs, setup, call, loc, snap,
                 origin, loads, installed, promoted>>

\* write_remote_bundle, first half: File::create and the bundle written
WriteFile(t) ==
  /\ pc[t] = "w_file"
  /\ files' = Put(files, <<"Remote", loc[t].info.name, loc[t].info.version>>,
                  loc[t].info.data)
  /\ Goto(t, "w_insert")
  /\ UNCHANGED <<remote, builtin, cache, setup, call, loc, snap, ghosts>>

\* write_remote_bundle, second half: insert_entry on the remote manifest
WriteInsert(t) ==
  /\ pc[t] = "w_insert"
  /\ LET i == loc[t].info
     IN /\ remote' = InsertEntryData(remote, i.name, i.version,
                                     [integrity |-> i.integrity, signature |-> i.signature])
        /\ installed' = IF call[t].op = "download_update"
                          THEN installed \cup {<<i.name, i.version>>}
                          ELSE installed
        /\ Return(t, Ok(<<i.name, i.version>>))
  /\ UNCHANGED <<builtin, files, cache, setup, call, loc, snap,
                 origin, epoch, loads, attempts, promoted>>

---------------------------------------------------------------------------
(* BundleProtocol::handle.  The request is the bundle name its URI resolves
   to (None when it names no bundle), the method, the path and the Range
   header.  A Range header carries at most one range spec here; the
   multipart answer to several specs is not modelled. *)

Methods == {"GET", "HEAD", "POST"}

Min(a, b) == IF a <= b THEN a ELSE b

Response(status, headers, body) ==
  Ok([status |-> status, headers |-> headers, body |-> body])

\* methods the gate lets through, first with every method admitted
AllowedAny(method) == TRUE

Allowed(method) == method \in {"GET", "HEAD"}

\* not_found() as the error of an unresolved bundle
NotFoundAsError == Err("BundleNotFound")

\* not_found(): a new builder, status 404, empty body
NotFound == Response(404, NoHeaders, <<>>)

\* the headers of every answer for an entry, first with the stored
\* content-type winning
BaseHeadersStoredWin(e) ==
  Put(IF "content-type" \in DOMAIN e.headers
        THEN e.headers
        ELSE Put(e.headers, "content-type", e.content_type),
      "content-length", e.content_length)

BaseHeaders(e) ==
  Put(Put(e.headers, "content-type", e.content_type),
      "content-length", e.content_length)

\* the Range header of a request: absent, not parseable, or the spec
\* first-last followed by the specs of more, each <<first, last>>; last =
\* Open stands for "first-"
Open == -1
NoRange == [kind |-> "none", first |-> 0, last |-> 0, more |-> <<>>]
Malformed == [kind |-> "malformed", first |-> 0, last |-> 0, more |-> <<>>]
Bytes(first, last) == [kind |-> "bytes", first |-> first, last |-> last, more |-> <<>>]
Several(specs) ==
  [kind |-> "bytes", first |-> specs[1][1], last |-> specs[1][2], more |-> Tail(specs)]

SpecsOf(r) == << <<r.first, r.last>> >> \o r.more

\* one spec against len, mapped to (start, end) inclusive: last is clamped
\* to len - 1
ParseSpec(first, last, len) ==
  LET length == IF last = Open THEN len - first
                ELSE Min(last, len - 1) - first + 1
  IN <<first, first + length - 1>>

RECURSIVE Overlapping(_, _)
Overlapping(specs, len) ==
  IF specs = <<>> THEN <<>>
  ELSE IF Head(specs)[1] >= len THEN Overlapping(Tail(specs), len)
  ELSE <<ParseSpec(Head(specs)[1], Head(specs)[2], len)>> \o Overlapping(Tail(specs), len)

\* HttpRange::parse(header, len) followed by the map to (start, end): the
\* header is refused when it is not parseable or a spec has last < first;
\* a spec that starts at or after len is skipped, and the header is refused
\* when none is left
ParseRange(r, len) ==
  LET specs == SpecsOf(r)
  IN IF r.kind = "malformed" THEN Err("InvalidRange")
     ELSE IF \E i \in 1..Len(specs) : specs[i][2] # Open /\ specs[i][2] < specs[i][1]
       THEN Err("InvalidRange")
     ELSE IF Overlapping(specs, len) = <<>> THEN Err("NoOverlap")
     ELSE Ok(Overlapping(specs, len))

\* one byte as format!("{val:x}") prints it: lower-case hexadecimal, as
\* many digits as the value needs
HexDigit(n) ==
  CASE n = 0 -> "0" [] n = 1 -> "1" [] n = 2 -> "2" [] n = 3 -> "3"
    [] n = 4 -> "4" [] n = 5 -> "5" [] n = 6 -> "6" [] n = 7 -> "7"
    [] n = 8 -> "8" [] n = 9 -> "9" [] n = 10 -> "a" [] n = 11 -> "b"
    [] n = 12 -> "c" [] n = 13 -> "d" [] n = 14 -> "e" [] n = 15 -> "f"

\* one byte printed with two digits
HexPadded(val) == HexDigit(val \div 16) \o HexDigit(val % 16)

Hex(val) == IF val < 16 THEN HexDigit(val) ELSE HexPadded(val)

\* random_boundary over the bytes getrandom filled in
RECURSIVE RandomBoundary(_)
RandomBoundary(values) ==
  IF values = <<>> THEN ""
  ELSE Hex(Head(values)) \o RandomBoundary(Tail(values))

BOUNDARY_BYTES == 30

Filled(val) == [i \in 1..BOUNDARY_BYTES |-> val]

\* boundaries a response is built with
Boundaries == { RandomBoundary(Filled(val)) : val \in {10, 171} }

\* const MAX_LEN: u64 = 1000 * 1024
MAX_LEN == 1024000

\* a u64 subtraction: below zero it wraps to a value above every length
\* (a release build) or panics (a debug build); underflow records which
Wrapped == 1073741824
SubU64(a, b) == IF a >= b THEN a - b ELSE Wrapped

\* adjust_end without the cap on the length served
AdjustEndUncapped(start, end, len) ==
  [end |-> start + Min(SubU64(end, start), SubU64(len, start)),
   underflow |-> end < start \/ len < start]

\* adjust_end = |start, end, len| start + (end - start).min(len - start).min(MAX_LEN - 1)
AdjustEnd(start, end, len) ==
  [end |-> start + Min(Min(SubU64(end, start), SubU64(len, start)), MAX_LEN - 1),
   underflow |-> end < start \/ len < start]

\* content-range: bytes start-end/len, and bytes */len as <<-1, -1, len>>
ContentRange(start, end, len) == <<start, end, len>>
Unsatisfied(len) == ContentRange(-1, -1, len)

NoSlice == [on |-> FALSE, start |-> 0, end |-> 0]

\* not_stisifiable() answering like not_found()
NotSatisfiableAsNotFound(len) ==
  [status |-> 404, headers |-> NoHeaders, final |-> TRUE, slice |-> NoSlice,
   parts |-> <<>>, boundary |-> ""]

\* not_stisifiable(): a new builder, status 416, content-range, empty body
NotSatisfiable(len) ==
  [status |-> 416, headers |-> Put(NoHeaders, "content-range", Unsatisfied(len)),
   final |-> TRUE, slice |-> NoSlice,
   parts |-> <<>>, boundary |-> ""]

\* the answer to one satisfiable range, first with the content-length of
\* the whole entry left in place
PartialWholeLength(e, start, end) ==
  [status |-> 206,
   headers |-> Put(Put(Put(BaseHeaders(e), "accept-ranges", "bytes"),
                       "access-control-expose-headers", "content-range"),
                   "content-range", ContentRange(start, end, e.content_length)),
   final |-> FALSE,
   slice |-> [on |-> TRUE, start |-> start, end |-> end],
   parts |-> <<>>, boundary |-> ""]

Partial(e, start, end) ==
  [status |-> 206,
   headers |-> Put(Put(Put(Put(BaseHeaders(e), "accept-ranges", "bytes"),
                           "access-control-expose-headers", "content-range"),
                       "content-range", ContentRange(start, end, e.content_length)),
                   "content-length", end + 1 - start),
   final |-> FALSE,
   slice |-> [on |-> TRUE, start |-> start, end |-> end],
   parts |-> <<>>, boundary |-> ""]

\* the ranges of a multipart answer: unsatisfiable ones dropped, the end of
\* the others adjusted
RECURSIVE Satisfiable(_, _)
Satisfiable(ranges, len) ==
  IF ranges = <<>> THEN <<>>
  ELSE LET start == Head(ranges)[1]
           end == Head(ranges)[2]
       IN IF start >= len \/ end >= len \/ end < start
            THEN Satisfiable(Tail(ranges), len)
            ELSE << <<start, AdjustEnd(start, end, len).end>> >>
                 \o Satisfiable(Tail(ranges), len)

\* the answer to several ranges, first with the entry's content-type left
\* in place
MultipartOwnType(e, ranges, boundary) ==
  [status |-> 206,
   headers |-> Put(Put(BaseHeaders(e), "accept-ranges", "bytes"),
                   "access-control-expose-headers", "content-range"),
   final |-> FALSE, slice |-> NoSlice,
   parts |-> Satisfiable(ranges, e.content_length), boundary |-> boundary]

Multipart(e, ranges, boundary) ==
  [status |-> 206,
   headers |-> Put(Put(Put(BaseHeaders(e), "accept-ranges", "bytes"),
                       "access-control-expose-headers", "content-range"),
                   "content-type", "multipart/byteranges; boundary=" \o boundary),
   final |-> FALSE, slice |-> NoSlice,
   parts |-> Satisfiable(ranges, e.content_length), boundary |-> boundary]

\* status and headers handle settles on before it reads the body
Plan(e, range, boundary) ==
  IF range.kind = "none"
    THEN [status |-> 200, headers |-> BaseHeaders(e), final |-> FALSE, slice |-> NoSlice,
          parts |-> <<>>, boundary |-> ""]
    ELSE LET len == e.content_length
             parsed == ParseRange(range, len)
         IN IF ~parsed.ok THEN NotSatisfiable(len)
            ELSE IF Len(parsed.val) = 1
              THEN LET start == parsed.val[1][1]
                       end == parsed.val[1][2]
                   IN IF start >= len \/ end >= len \/ end < start
                        THEN NotSatisfiable(len)
                        ELSE Partial(e, start, AdjustEnd(start, end, len).end)
              ELSE Multipart(e, parsed.val, boundary)

\* the pieces of a multipart body
Separator(boundary) == <<"separator", boundary>>
TypeLine(content_type) == <<"content-type", content_type>>
RangeLine(start, end, len) == <<"content-range", start, end, len>>
EmptyLine == <<"crlf">>

\* extract_buf: the bytes start..=end of the data, nothing when start is
\* past the data; the slice data[start..end + 1] panics when end is past it
ExtractBuf(data, start, end) ==
  LET data_len == Len(data)
      start_i == Min(start, data_len)
      end_i == Min(end, IF data_len = 0 THEN 0 ELSE data_len - 1)  \* saturating_sub
  IN IF start_i <= end_i
       THEN IF end + 1 <= data_len
              THEN Ok(SubSeq(data, start + 1, end + 1))
              ELSE Err("panic")
       ELSE Ok(<<>>)

\* adjust_end applied to the range (start, end) of an entry of length len
Adjust(t) ==
  /\ pc[t] = "adjust"
  /\ Return(t, Ok(AdjustEnd(call[t].arg.start, call[t].arg.end, call[t].arg.len)))
  /\ UNCHANGED <<store, cache, setup, call, loc, snap, ghosts>>

\* the parts written for the ranges, each separator, content-type line,
\* content-range line, empty line and extract_buf of the range
RECURSIVE Parts(_, _, _, _)
Parts(data, ranges, boundary, e) ==
  IF ranges = <<>> THEN Ok(<<>>)
  ELSE LET buf == ExtractBuf(data, Head(ranges)[1], Head(ranges)[2])
           rest == Parts(data, Tail(ranges), boundary, e)
       IN IF ~buf.ok THEN buf
          ELSE IF ~rest.ok THEN rest
          ELSE Ok(<< Separator(boundary), TypeLine(e.content_type),
                     RangeLine(Head(ranges)[1], Head(ranges)[2], e.content_length),
                     EmptyLine >> \o buf.val \o rest.val)

\* a multipart body without the separator that closes it
MultipartBodyOpen(data, ranges, boundary, e) == Parts(data, ranges, boundary, e)

MultipartBody(data, ranges, boundary, e) ==
  LET parts == Parts(data, ranges, boundary, e)
  IN IF ~parts.ok THEN parts ELSE Ok(parts.val \o <<Separator(boundary)>>)

\* 2^bit for the bits of a byte
Pow2(bit) ==
  CASE bit = 0 -> 1 [] bit = 1 -> 2 [] bit = 2 -> 4 [] bit = 3 -> 8
    [] bit = 4 -> 16 [] bit = 5 -> 32 [] bit = 6 -> 64 [] bit = 7 -> 128

\* bytes with the given bit of the byte at offset pos changed
Flip(bytes, pos, bit) ==
  [bytes EXCEPT ![pos + 1] =
     IF (@ \div Pow2(bit)) % 2 = 1 THEN @ - Pow2(bit) ELSE @ + Pow2(bit)]

RECURSIVE FlipAll(_, _)
FlipAll(bytes, flips) ==
  IF flips = {} THEN bytes
  ELSE LET f == CHOOSE x \in flips : TRUE
       IN FlipAll(Flip(bytes, f[1], f[2]), flips \ {f})

\* BundleBuilder::build of the mapping, its map iterating in the order
\* given
CodecBuild(t) ==
  /\ pc[t] = "c_build"
  /\ loc' = [loc EXCEPT ![t].built = Build(call[t].arg.id, call[t].arg.order)]
  /\ Goto(t, "c_write")
  /\ UNCHANGED <<store, cache, setup, call, snap, ghosts>>

\* BundleWriter::write into a buffer
CodecWrite(t) ==
  /\ pc[t] = "c_write"
  /\ loc' = [loc EXCEPT ![t].out = WriteBundle(loc[t].built, call[t].arg.paths)]
  /\ Goto(t, "c_stored")
  /\ UNCHANGED <<store, cache, setup, call, snap, ghosts>>

\* what happens to the bytes before they are read: bits change
CodecCorrupt(t) ==
  /\ pc[t] = "c_stored"
  /\ loc' = [loc EXCEPT ![t].out.bytes = FlipAll(@, call[t].arg.flips)]
  /\ Goto(t, "c_read")
  /\ UNCHANGED <<store, cache, setup, call, snap, ghosts>>

\* the descriptor read back with HeaderReader and IndexReader, then
\* get_data of the path asked: on the descriptor over the file (data), on
\* the bundle read whole (whole), and async_get_data over the file (async)
CodecRead(t) ==
  /\ pc[t] = "c_read"
  /\ LET got(d, data) ==
           IF ~data.ok THEN data
           ELSE Ok([index_size |-> d.val.index_size,
                    index |-> d.val.index,
                    data |-> data.val,
                    whole |-> BundleGetData(d.val, ReadData(loc[t].out.bytes, d.val),
                                            call[t].arg.path),
                    async |-> AsyncGetData(d.val, loc[t].out.bytes,
                                           Utf8(call[t].arg.path))])
         described(d) ==
           IF ~d.ok THEN d
           ELSE got(d, GetData(d.val, loc[t].out.bytes, call[t].arg.path))
     IN Return(t, described(ReadDescriptor(loc[t].out.bytes, call[t].arg.verify)))
  /\ UNCHANGED <<store, cache, setup, call, loc, snap, ghosts>>

\* random_boundary over the bytes getrandom::fill wrote
Boundary(t) ==
  /\ pc[t] = "boundary"
  /\ Return(t, Ok(RandomBoundary(call[t].arg)))
  /\ UNCHANGED <<store, cache, setup, call, loc, snap, ghosts>>

\* uri_resolver.resolve_bundle, then the method gate
HMethod(t) ==
  /\ pc[t] = "h_method"
  /\ IF call[t].name = None
       THEN Return(t, Err("BundleNotFound"))
       ELSE IF Allowed(call[t].arg.method)
              THEN Goto(t, "ld_get")
              ELSE Return(t, Response(405, NoHeaders, <<>>))
  /\ UNCHANGED <<store, cache, setup, call, loc, snap, ghosts>>

\* the index lookup in the loaded descriptor, the headers and the range;
\* HEAD and 416 answer from the index alone
HEntry(t) ==
  /\ pc[t] = "h_entry"
  /\ LET d == Descriptor(arcs[loc[t].desc].id)
         path == call[t].arg.path
     IN IF path \notin DOMAIN d.index
          THEN Return(t, NotFound) /\ UNCHANGED loc
          ELSE \E boundary \in Boundaries :
                 LET plan == Plan(d.index[path], call[t].arg.range, boundary)
                 IN IF plan.final \/ call[t].arg.method = "HEAD"
                      THEN /\ Return(t, Response(plan.status, plan.headers, <<>>))
                           /\ UNCHANGED loc
                      ELSE /\ loc' = [loc EXCEPT ![t].phase = "body", ![t].plan = plan]
                           /\ Goto(t, "lv")
  /\ UNCHANGED <<store, cache, setup, call, snap, ghosts>>

\* source.reader(name), then descriptor.async_get_data over that file and
\* the slice of a range request
OpenBody(t) ==
  /\ pc[t] = "open" /\ loc[t].phase = "body"
  /\ LET key == FilePath(loc[t].ver, call[t].name)
         d == Descriptor(arcs[loc[t].desc].id)
         plan == loc[t].plan
     IN IF key \notin DOMAIN files
          THEN Return(t, Err("BundleNotFound"))
          ELSE LET r == AsyncGetData(d, FileBytes(files[key]), call[t].arg.path)
               IN IF ~r.ok THEN Return(t, r)
                  ELSE IF r.val = NoData THEN Return(t, NotFound)
                  ELSE IF plan.boundary # ""
                    THEN LET buf == MultipartBody(r.val, plan.parts, plan.boundary,
                                                  d.index[call[t].arg.path])
                         IN IF ~buf.ok THEN Return(t, buf)
                            ELSE Return(t, Response(plan.status, plan.headers, buf.val))
                  ELSE IF ~plan.slice.on
                    THEN Return(t, Response(plan.status, plan.headers, r.val))
                  ELSE LET buf == ExtractBuf(r.val, plan.slice.start, plan.slice.end)
                       IN IF ~buf.ok THEN Return(t, buf)
                          ELSE Return(t, Response(plan.status, plan.headers, buf.val))
  /\ UNCHANGED <<store, cache, setup, call, loc, snap, ghosts>>

---------------------------------------------------------------------------
(* BundleManifest::save *)

\* the manifest file of the remote tier, in the tree of files
ManifestFile == <<"Remote", "manifest.json", None>>

\* serde_json over the versions of one bundle: version, integrity and
\* signature of each, one after another
RECURSIVE JsonVersions(_, _)
JsonVersions(versions, order) ==
  IF order = <<>> THEN <<>>
  ELSE <<Head(order), ":", versions[Head(order)].integrity,
         versions[Head(order)].signature, ",">>
       \o JsonVersions(versions, Tail(order))

RECURSIVE JsonEntries(_, _)
JsonEntries(d, order) ==
  IF order = <<>> THEN <<>>
  ELSE <<Head(order), ":", "{">>
       \o JsonVersions(d[Head(order)].versions, SeqOf(DOMAIN d[Head(order)].versions))
       \o <<d[Head(order)].current_version, "}">>
       \o JsonEntries(d, Tail(order))

\* serde_json::to_vec of the manifest data: one document, closed by its
\* last token
Json(d) == <<"{">> \o JsonEntries(d, SeqOf(DOMAIN d)) \o <<"}">>

\* save: the manifest serialized under the read lock
SaveSerialize(t) ==
  /\ pc[t] = "sv_raw"
  /\ loc' = [loc EXCEPT ![t].out.bytes = Json(remote)]
  /\ Goto(t, "sv_create")
  /\ UNCHANGED <<store, cache, setup, call, snap, ghosts>>

\* tokio::fs::write, first half: the file is created, or truncated when
\* it exists
SaveCreate(t) ==
  /\ pc[t] = "sv_create"
  /\ files' = Put(files, ManifestFile, <<>>)
  /\ Goto(t, "sv_write")
  /\ UNCHANGED <<remote, builtin, cache, setup, call, loc, snap, ghosts>>

\* a write of piece at the offset pos of a file handle: the bytes there are
\* replaced, the file grows when the piece ends past its end, and a hole
\* is left when pos is past its end
Hole(n) == [i \in 1..n |-> "nul"]

WriteAt(file, pos, piece) ==
  (IF pos <= Len(file) THEN SubSeq(file, 1, pos)
                       ELSE file \o Hole(pos - Len(file)))
  \o piece
  \o SubSeq(file, pos + Len(piece) + 1, Len(file))

\* tokio::fs::write, second half: write_all hands the document to the
\* file piece by piece, each at the offset the handle has reached; the
\* call returns when the last piece is written
SaveWrite(t) ==
  /\ pc[t] = "sv_write"
  /\ LET raw == loc[t].out.bytes
         have == loc[t].out.written
     IN \E n \in (have + 1) .. Len(raw) :
          /\ files' = Put(files, ManifestFile,
                          WriteAt(files[ManifestFile], have, SubSeq(raw, have + 1, n)))
          /\ loc' = [loc EXCEPT ![t].out.written = n]
          /\ IF n = Len(raw) THEN Return(t, Ok(None)) ELSE Goto(t, pc[t])
  /\ UNCHANGED <<remote, builtin, cache, setup, call, snap, ghosts>>

\* the write fails midway with an I/O error, which save passes on
SaveFail(t) ==
  /\ pc[t] \in {"sv_create", "sv_write"}
  /\ Return(t, Err("Io"))
  /\ UNCHANGED <<store, cache, setup, call, loc, snap, ghosts>>

---------------------------------------------------------------------------
(* Updater::get_update *)

\* to_update_info that reports every remote version as an update
ToUpdateInfoAlways(info, sv) ==
  [name |-> info.name, version |-> info.version,
   local_version |-> sv.version, is_available |-> TRUE,
   integrity |-> info.integrity, signature |-> info.signature]

\* to_update_info, given what load_version(info.name) resolved; NoVer
\* stands for Ok(None)
ToUpdateInfo(info, sv) ==
  [name |-> info.name, version |-> info.version,
   local_version |-> sv.version,
   is_available |-> IF sv # NoVer THEN sv.version # info.version ELSE TRUE,
   integrity |-> info.integrity, signature |-> info.signature]

\* remote.get_current_info: the server answers HEAD /bundles/<name> with
\* the headers of the bundle it deploys under that name, or with 404
GetCurrentInfo(t) ==
  /\ pc[t] = "gu_info"
  /\ IF \E r \in server : r.name = call[t].name
       THEN \E r \in server :
              /\ r.name = call[t].name
              /\ loc' = [loc EXCEPT ![t].info = r]
              /\ Goto(t, "gu_local")
       ELSE Return(t, Err("RemoteBundleNotFound")) /\ UNCHANGED loc
  /\ UNCHANGED <<store, cache, setup, call, snap, ghosts>>

\* to_update_info: load_version of the name the server answered with
GetUpdateInfo(t) ==
  /\ pc[t] = "gu_local"
  /\ Return(t, Ok(ToUpdateInfo(loc[t].info, LoadVersion(loc[t].info.name))))
  /\ UNCHANGED <<store, cache, setup, call, loc, snap, ghosts>>

---------------------------------------------------------------------------
(* Updater::download_update *)

\* remote.download / download_version: the server answers with one of its
\* responses; info and data are taken from the response
Download(t) ==
  /\ pc[t] = "du_download"
  /\ \E r \in server :
       /\ loc' = [loc EXCEPT ![t].info = r]
       /\ Goto(t, "du_verify")
  /\ UNCHANGED <<store, cache, setup, call, snap, ghosts>>

\* the request fails, or the response is not a bundle
DownloadFail(t) ==
  /\ pc[t] = "du_download"
  /\ Return(t, Err("RemoteHttp"))
  /\ UNCHANGED <<store, cache, setup, call, loc, snap, ghosts>>

\* the verification stages placed after File::create
VerifyAfterCreate(t) ==
  /\ pc[t] = "du_verify"
  /\ LET v == VerifyStage(config, loc[t].info)
     IN /\ loc' = [loc EXCEPT ![t].checked = v.checked]
        /\ files' = Put(files, <<"Remote", loc[t].info.name, loc[t].info.version>>,
                        loc[t].info.data)
        /\ IF v.err = None THEN Goto(t, "w_insert") ELSE Return(t, Err(v.err))
  /\ UNCHANGED <<remote, builtin, cache, setup, call, snap, ghosts>>

\* the verification stages, before anything is written
Verify(t) ==
  /\ pc[t] = "du_verify"
  /\ LET v == VerifyStage(config, loc[t].info)
     IN /\ loc' = [loc EXCEPT ![t].checked = v.checked]
        /\ IF v.err = None THEN Goto(t, "w_file") ELSE Return(t, Err(v.err))
  /\ UNCHANGED <<store, cache, setup, call, snap, ghosts>>

---------------------------------------------------------------------------
(* Initial states *)

InitTasks ==
  /\ pc = [t \in Tasks |-> "idle"]
  /\ call = [t \in Tasks |-> NoCall]
  /\ loc = [t \in Tasks |-> NoLoc]
  /\ ret = [t \in Tasks |-> None]
  /\ snap = [t \in Tasks |-> NoSnap]

\* the manifest cell once load() has filled it; `remote` is what it holds
LoadedCell == [set |-> TRUE, permit |-> None]

\* no descriptor and no response is cached; the manifests have been loaded
InitCache ==
  /\ descriptors = Empty
  /\ cells = Empty
  /\ arcs = Empty
  /\ manifest_data = LoadedCell
  /\ local_cache = Empty

InitGhosts ==
  /\ epoch = [b \in Names |-> 0]
  /\ loads = Empty
  /\ attempts = [b \in Names |-> NoAttempts]
  /\ installed = {}
  /\ promoted = {}

NoSetup ==
  /\ config = NoConfig
  /\ server = {}

---------------------------------------------------------------------------
(* SpecManifestSeq: manifest calls one after another on a ReadWrite       *)
(* manifest, from every manifest that satisfies the invariant.            *)

InitManifestSeq ==
  /\ remote \in ManifestEntries(Names)
  /\ builtin = Empty
  /\ files = Empty
  /\ origin = Empty
  /\ InitCache /\ InitTasks /\ InitGhosts /\ NoSetup

BeginManifestSeq ==
  /\ \A u \in Tasks : Idle(u)
  /\ \E c \in ManifestCalls : Begin("t1", c)

NextManifestSeq == BeginManifestSeq \/ \E t \in Tasks : ManifestStep(t)

SpecManifestSeq == InitManifestSeq /\ [][NextManifestSeq]_vars

\* C1: after any sequence of insert_entry, update_current_version and
\* remove_entry calls, each bundle's current_version is a key of its versions.
CurrentVersionListed ==
  \A b \in DOMAIN remote : remote[b].current_version \in DOMAIN remote[b].versions

CurrentVersionListedWitness ==
  /\ pc["t1"] = "done" /\ call["t1"].op = "remove_entry" /\ ret["t1"] = Ok(TRUE)
  /\ remote # snap["t1"].remote

\* a manifest call of task t that has returned
Did(t, op) == pc[t] = "done" /\ call[t].op = op

\* C11: update_current_version(b, v) returns BundleEntryNotExists and leaves
\* the manifest as it was when (b, v) is not listed; otherwise it returns Ok
\* and the manifest differs from the one before only in b's current_version,
\* which is v.
UpdateCurrentVersionContract ==
  \A t \in Tasks :
    Did(t, "update_current_version") =>
      LET d == snap[t].remote
          b == call[t].name
          v == call[t].version
      IN IF b \in DOMAIN d /\ v \in DOMAIN d[b].versions
           THEN /\ RetEq(ret[t], Ok(None))
                /\ remote = [d EXCEPT ![b].current_version = v]
           ELSE /\ RetEq(ret[t], Err("BundleEntryNotExists"))
                /\ remote = d

\* an update to a listed version other than the current one, and nothing
\* else changed
UpdateCurrentVersionContractWitness ==
  /\ Did("t1", "update_current_version") /\ ret["t1"].ok
  /\ remote # snap["t1"].remote
  /\ remote[call["t1"].name].current_version = call["t1"].version
  /\ Cardinality(DOMAIN remote) = 2

\* C12: remove_entry(b, v) returns BundleCannotBeRemoved and leaves the
\* manifest as it was when v is b's current version; otherwise it removes
\* exactly version v of b and returns whether v was listed, false without any
\* change when b or v is unknown.
RemoveEntryContract ==
  \A t \in Tasks :
    Did(t, "remove_entry") =>
      LET d == snap[t].remote
          b == call[t].name
          v == call[t].version
      IN IF b \notin DOMAIN d
           THEN RetEq(ret[t], Ok(FALSE)) /\ remote = d
           ELSE IF d[b].current_version = v
                  THEN RetEq(ret[t], Err("BundleCannotBeRemoved")) /\ remote = d
                  ELSE IF v \in DOMAIN d[b].versions
                         THEN /\ RetEq(ret[t], Ok(TRUE))
                              /\ remote = [d EXCEPT ![b].versions = Drop(@, v)]
                         ELSE RetEq(ret[t], Ok(FALSE)) /\ remote = d

\* a remove_entry of a version the listed bundle does not have
RemoveEntryContractWitness ==
  /\ Did("t1", "remove_entry") /\ RetEq(ret["t1"], Ok(FALSE))
  /\ call["t1"].name \in DOMAIN remote
  /\ call["t1"].version \notin DOMAIN remote[call["t1"].name].versions
  /\ remote = snap["t1"].remote

\* C13: insert_entry(b, v, meta) for a version already listed under b returns
\* false and leaves the whole manifest, the metadata of (b, v) included, as it
\* was.
InsertDuplicateKeeps ==
  \A t \in Tasks :
    ( /\ Did(t, "insert_entry")
      /\ ContainsEntry(snap[t].remote, call[t].name, call[t].version) )
      => (RetEq(ret[t], Ok(FALSE)) /\ remote = snap[t].remote)

\* a duplicate insert_entry that carried other metadata than the stored one
InsertDuplicateKeepsWitness ==
  /\ Did("t1", "insert_entry")
  /\ ContainsEntry(snap["t1"].remote, call["t1"].name, call["t1"].version)
  /\ snap["t1"].remote[call["t1"].name].versions[call["t1"].version] # call["t1"].arg

\* C14: insert_entry(b, v, meta) for a version not yet listed returns true and
\* stores meta under (b, v); a bundle that had no entry gets current_version v,
\* a bundle that had one keeps its current_version and its other versions;
\* the other bundles are untouched.
InsertNewVersion ==
  \A t \in Tasks :
    LET d == snap[t].remote
        b == call[t].name
        v == call[t].version
    IN (Did(t, "insert_entry") /\ ~ContainsEntry(d, b, v)) =>
         /\ RetEq(ret[t], Ok(TRUE))
         /\ DOMAIN remote = DOMAIN d \cup {b}
         /\ \A x \in DOMAIN d \ {b} : remote[x] = d[x]
         /\ remote[b].versions[v] = call[t].arg
         /\ IF b \in DOMAIN d
              THEN /\ remote[b].current_version = d[b].current_version
                   /\ DOMAIN remote[b].versions = DOMAIN d[b].versions \cup {v}
                   /\ \A w \in DOMAIN d[b].versions : remote[b].versions[w] = d[b].versions[w]
              ELSE /\ remote[b].current_version = v
                   /\ DOMAIN remote[b].versions = {v}

\* a new version inserted under a bundle that was already listed
InsertNewVersionWitness ==
  /\ Did("t1", "insert_entry") /\ RetEq(ret["t1"], Ok(TRUE))
  /\ call["t1"].name \in DOMAIN snap["t1"].remote
  /\ remote[call["t1"].name].current_version # call["t1"].version

---------------------------------------------------------------------------
(* SpecManifest: every task issues one manifest call, all of them         *)
(* overlapping in time.                                                   *)

InitManifest ==
  /\ remote \in ManifestEntries({"app"})
  /\ builtin = Empty
  /\ files = Empty
  /\ origin = remote
  /\ InitCache /\ InitTasks /\ InitGhosts /\ NoSetup

BeginManifest(t) ==
  /\ \A u \in Tasks : pc[u] # "done"
  /\ pc[t] = "idle"
  /\ \E c \in ManifestCalls : c.name = "app" /\ Begin(t, c)

NextManifest == \E t \in Tasks : BeginManifest(t) \/ ManifestStep(t)

SpecManifest == InitManifest /\ [][NextManifest]_vars

\* A manifest call run to completion with no other call in between
SeqApply(d, c) ==
  CASE c.op = "insert_entry" ->
         [data |-> InsertEntryData(d, c.name, c.version, c.arg),
          ret |-> InsertEntryResult(d, c.name, c.version)]
    [] c.op = "update_current_version" ->
         IF ContainsEntry(d, c.name, c.version)
           THEN [data |-> SetCurrentVersion(d, c.name, c.version), ret |-> Ok(None)]
           ELSE [data |-> d, ret |-> Err("BundleEntryNotExists")]
    [] c.op = "remove_entry" ->
         [data |-> RemoveEntryData(d, c.name, c.version),
          ret |-> RemoveEntryResult(d, c.name, c.version)]

RECURSIVE RunSeq(_, _, _)
RunSeq(d, rets, order) ==
  IF order = <<>>
    THEN [data |-> d, rets |-> rets]
    ELSE LET r == SeqApply(d, call[Head(order)])
         IN RunSeq(r.data, Put(rets, Head(order), r.ret), Tail(order))

Orders == { o \in [1..Cardinality(Tasks) -> Tasks] : \A i, j \in DOMAIN o : o[i] = o[j] => i = j }

\* C6: concurrent manifest mutations are linearizable: the final manifest and
\* the returned results equal those of some sequential order of the same calls.
Linearizable ==
  (\A t \in Tasks : pc[t] = "done") =>
    \E o \in Orders :
      LET r == RunSeq(origin, Empty, o)
      IN r.data = remote /\ \A t \in Tasks : RetEq(r.rets[t], ret[t])

---------------------------------------------------------------------------
(* SpecCache: the tasks call load_descriptor and unload_descriptor for    *)
(* one bundle, overlapping in every way.  The bundle's file is sound,     *)
(* unreadable as a bundle, or missing.                                    *)

BuiltinApp == Put(Empty, "app", [versions |-> Put(Empty, "v1", [integrity |-> None, signature |-> None]),
                                 current_version |-> "v1"])

InitCacheSpec ==
  /\ remote = Empty
  /\ builtin = BuiltinApp
  /\ files \in {Empty} \cup { Put(Empty, <<"Builtin", "app", "v1">>, id) : id \in {"b1", Corrupt} }
  /\ origin = Empty
  /\ InitCache /\ InitTasks /\ InitGhosts /\ NoSetup

BeginCache(t) ==
  \/ /\ attempts["app"].reads < MaxReads
     /\ Begin(t, MkCall("load_descriptor", "app", None, None))
  \/ /\ epoch["app"] < MaxUnloads
     /\ Begin(t, MkCall("unload_descriptor", "app", None, None))

NextCache ==
  \E t \in Tasks :
    \/ BeginCache(t)
    \/ LdGet(t)
    \/ LdEntry(t)
    \/ LdInit(t)
    \/ Lv(t)
    \/ OpenInit(t)
    \/ Unload(t)

SpecCache == InitCacheSpec /\ [][NextCache]_vars

\* a load_descriptor call that returned a descriptor
LoadedOk(t) ==
  pc[t] = "done" /\ call[t].op = "load_descriptor" /\ ret[t].ok

\* a load_descriptor call with no unload_descriptor between its start and
\* its return
Undisturbed(t) == loc[t].end = snap[t].epoch

\* C4 (as the code has it): among load_descriptor calls for one name with no
\* unload in between, at most one read of the descriptor file succeeds and a
\* further read happens only after a failed one; a cell is given at most one
\* descriptor, and all callers that receive a descriptor receive the same
\* reference.
SingleFlight ==
  /\ \A b \in Names : attempts[b].reads - attempts[b].failed <= 1
  /\ \A r1, r2 \in DOMAIN arcs : arcs[r1].cell = arcs[r2].cell => r1 = r2
  /\ \A t, u \in Tasks :
       ( /\ LoadedOk(t) /\ LoadedOk(u)
         /\ Undisturbed(t) /\ Undisturbed(u)
         /\ snap[t].epoch = snap[u].epoch )
       => ret[t].val = ret[u].val

\* two calls that both found the cache empty when they began and returned
\* the same descriptor
SingleFlightWitness ==
  /\ LoadedOk("t1") /\ LoadedOk("t2")
  /\ snap["t1"].cached = 0 /\ snap["t2"].cached = 0
  /\ Undisturbed("t1") /\ Undisturbed("t2")
  /\ snap["t1"].epoch = snap["t2"].epoch
  /\ ret["t1"].val = ret["t2"].val
  /\ attempts["app"].reads = 1

\* C4 as stated: the descriptor file is read at most once by the load_descriptor
\* calls of one burst.
ReadAtMostOnce == \A b \in Names : attempts[b].reads <= 1

\* C5: a load_descriptor that starts after unload_descriptor returned gets a
\* reference no call returned before that unload; a call that found a cached
\* reference and saw no unload returned that reference; every reference handed
\* out still names the descriptor it was handed out with.
FreshAfterUnload ==
  /\ \A t \in Tasks : LoadedOk(t) => loads[ret[t].val].epoch >= snap[t].epoch
  /\ \A t \in Tasks :
       (LoadedOk(t) /\ snap[t].cached # 0 /\ Undisturbed(t))
         => ret[t].val = snap[t].cached
  /\ \A r \in DOMAIN loads : r \in DOMAIN arcs /\ arcs[r].id = loads[r].id

\* a call that began after an unload returned a reference other than the one
\* handed out before the unload
FreshAfterUnloadWitness ==
  \E t \in Tasks :
    /\ LoadedOk(t)
    /\ snap[t].epoch > 0
    /\ \E r \in DOMAIN loads : r # ret[t].val /\ loads[r].epoch < snap[t].epoch

---------------------------------------------------------------------------
(* SpecSystem: one client drives the source, the protocol and the updater *)
(* call after call.  The builtin tier ships app at v1; the remote tier    *)
(* is empty or already holds app at v1; the server offers app at v2 with  *)
(* the layout of v1 or with another one.  No descriptor is unloaded.      *)

Plain == [integrity |-> None, signature |-> None]

BuiltinAppLib == Put(BuiltinApp, "lib", [versions |-> Put(Empty, "v1", Plain),
                                        current_version |-> "v1"])

RemoteApp == Put(Empty, "app", [versions |-> Put(Empty, "v1", Plain),
                                current_version |-> "v1"])

Offer(id) == [name |-> "app", version |-> "v2", integrity |-> None,
              signature |-> None, data |-> id]

InitSystem ==
  /\ builtin \in {BuiltinApp, BuiltinAppLib}
  /\ \/ /\ remote = Empty
        /\ files = Put(Empty, <<"Builtin", "app", "v1">>, "b1")
     \/ /\ remote = RemoteApp
        /\ files = Put(Put(Empty, <<"Builtin", "app", "v1">>, "b1"),
                       <<"Remote", "app", "v1">>, "b1")
  /\ config = NoConfig
  /\ server \in { {Offer("b2")}, {Offer("b3")} }
  /\ origin = Empty
  /\ InitCache /\ InitTasks /\ InitGhosts

SystemCalls ==
  { MkCall("handle", "app", None, [method |-> m, path |-> p,
                                        range |-> NoRange]) :
      m \in Methods, p \in Paths }
  \cup { MkCall("download_update", "app", None, None) }
  \cup { MkCall("update_version", "app", v, None) : v \in Versions }
  \cup { MkCall("write_remote_bundle", "app", "v2", Offer("b2")) }
  \cup { MkCall(op, b, None, None) : op \in {"load_version", "fetch"}, b \in Names }

BeginSystem ==
  /\ \A u \in Tasks : Idle(u)
  /\ \E c \in SystemCalls : Begin("t1", c)

NextSystem ==
  \/ BeginSystem
  \/ \E t \in Tasks :
       \/ UpdateCheck(t)
       \/ UpdateWrite(t)
       \/ LdGet(t)
       \/ LdEntry(t)
       \/ LdInit(t)
       \/ Lv(t)
       \/ OpenFetch(t)
       \/ OpenInit(t)
       \/ WriteFile(t)
       \/ WriteInsert(t)
       \/ HMethod(t)
       \/ HEntry(t)
       \/ OpenBody(t)
       \/ Download(t)
       \/ DownloadFail(t)
       \/ Verify(t)

SpecSystem == InitSystem /\ [][NextSystem]_vars

\* what load_version(b) resolves with remote manifest r
Resolved(r, b) ==
  IF b \in DOMAIN r THEN [kind |-> "Remote", version |-> r[b].current_version]
  ELSE IF b \in DOMAIN builtin
         THEN [kind |-> "Builtin", version |-> builtin[b].current_version]
  ELSE NoVer

\* C2: write_remote_bundle and download_update leave what load_version(b)
\* resolves as it was when the call began, for every bundle b.
WriteKeepsResolution ==
  \A t \in Tasks :
    (pc[t] = "done" /\ call[t].op \in {"write_remote_bundle", "download_update"})
      => \A b \in Names : Resolved(remote, b) = Resolved(snap[t].remote, b)

\* C3: once download_update installed a version and update_version promoted
\* it, a GET for a path of the bundle answers 200 with the body that version
\* stores.
ServesPromoted ==
  \A t \in Tasks :
    LET b == call[t].name
        sv == Resolved(remote, b)
        key == <<"Remote", b, sv.version>>
    IN ( /\ pc[t] = "done" /\ call[t].op = "handle" /\ call[t].arg.method = "GET"
         /\ b \in promoted
         /\ sv.kind = "Remote" /\ <<b, sv.version>> \in installed
         /\ key \in DOMAIN files
         /\ call[t].arg.path \in PathsOf(files[key]) )
       => /\ ret[t].ok
          /\ ret[t].val.status = 200
          /\ ret[t].val.body = BodyOf(files[key], call[t].arg.path)

\* C7: load_version answers the remote manifest's current version tagged
\* Remote when the remote manifest lists the bundle, else the builtin one
\* tagged Builtin, else nothing; fetch fails with BundleNotFound when no
\* version resolves or the resolved file is missing.
ResolutionOrder ==
  \A t \in Tasks :
    LET sv == Resolved(remote, call[t].name)
    IN /\ (pc[t] = "done" /\ call[t].op = "load_version")
            => (ret[t].ok /\ ret[t].val = sv)
       /\ ( /\ pc[t] = "done" /\ call[t].op = "fetch"
            /\ (sv = NoVer \/ FilePath(sv, call[t].name) \notin DOMAIN files) )
            => RetEq(ret[t], Err("BundleNotFound"))

\* load_version answered Remote for a bundle that both tiers list at
\* different versions
ResolutionOrderWitness ==
  /\ pc["t1"] = "done" /\ call["t1"].op = "load_version"
  /\ call["t1"].name \in DOMAIN remote /\ call["t1"].name \in DOMAIN builtin
  /\ ret["t1"].val.kind = "Remote"
  /\ remote[call["t1"].name].current_version
       # builtin[call["t1"].name].current_version

---------------------------------------------------------------------------
(* SpecUpdater: download_update, call after call, under every updater     *)
(* configuration and against every response of the server.  The remote    *)
(* tier is empty, or already holds a file for the version offered.        *)

Responses ==
  [name : {"app"}, version : {"v2"}, integrity : {None, "d2", "d3"},
   signature : {None, "s2", "s3", "malformed"}, data : {"b2"}]

RemoteAppBoth ==
  Put(Empty, "app", [versions |-> Put(Put(Empty, "v1", Plain), "v2", Plain),
                     current_version |-> "v1"])

InitUpdater ==
  /\ builtin = BuiltinApp
  /\ \/ /\ remote = Empty
        /\ files = Put(Empty, <<"Builtin", "app", "v1">>, "b1")
     \/ /\ remote = RemoteAppBoth
        /\ files = Put(Put(Put(Empty, <<"Builtin", "app", "v1">>, "b1"),
                           <<"Remote", "app", "v1">>, "b1"),
                       <<"Remote", "app", "v2">>, "b3")
  /\ config \in Configs
  /\ \E r \in Responses : server = {r}
  /\ origin = Empty
  /\ InitCache /\ InitTasks /\ InitGhosts

BeginUpdater ==
  /\ \A u \in Tasks : Idle(u)
  /\ \E v \in {None, "v2"} : Begin("t1", MkCall("download_update", "app", v, None))

NextUpdater ==
  \/ BeginUpdater
  \/ \E t \in Tasks :
       \/ Download(t)
       \/ DownloadFail(t)
       \/ Verify(t)
       \/ WriteFile(t)
       \/ WriteInsert(t)

SpecUpdater == InitUpdater /\ [][NextUpdater]_vars

VerifyErrors == {"IntegrityVerifyFailed", "IntegrityRequired", "SignatureNotExists",
                 "SignatureVerifyFailed", "InvalidSignature"}

\* a download_update call that got a response and has left the verification
\* stages
PastVerify(t) ==
  call[t].op = "download_update" /\ pc[t] \in {"w_file", "w_insert", "done"}
    /\ loc[t].info # NoInfo

\* a download_update call that is installing or has installed its bundle
Installing(t) ==
  PastVerify(t) /\ (pc[t] = "done" => ret[t].ok)

Failed(t, e) == pc[t] = "done" /\ RetEq(ret[t], Err(e))

\* C8: when download_update fails its integrity check or its signature
\* verification, the files of the remote directory and the remote manifest
\* are as they were when the call began.
FailedVerifyWritesNothing ==
  \A t \in Tasks :
    (PastVerify(t) /\ pc[t] = "done" /\ ~ret[t].ok /\ ret[t].val \in VerifyErrors)
      => (remote = snap[t].remote /\ files = snap[t].files)

\* a failed verification of a response whose version already has a file in
\* the remote directory, holding another bundle
FailedVerifyWritesNothingWitness ==
  /\ PastVerify("t1") /\ Failed("t1", "SignatureVerifyFailed")
  /\ <<"Remote", "app", "v2">> \in DOMAIN files
  /\ files[<<"Remote", "app", "v2">>] # loc["t1"].info.data

\* C9: under Strict a bundle is installed only if the response carries an
\* integrity value that the checker accepts for the downloaded bytes; under
\* Optional only if the integrity value is absent or accepted; under
\* Disabled the checker is never consulted.
PolicyGate ==
  \A t \in Tasks :
    LET i == loc[t].info
    IN /\ (Installing(t) /\ config.policy = "Strict")
            => (i.integrity # None /\ IntegrityCheck(i.integrity, i.data) /\ loc[t].checked)
       /\ (Installing(t) /\ config.policy = "Optional")
            => (i.integrity = None
                  \/ (IntegrityCheck(i.integrity, i.data) /\ loc[t].checked))
       /\ (PastVerify(t) /\ config.policy = "Disabled") => ~loc[t].checked

\* under Optional, a response with an integrity value the checker accepts was
\* installed
PolicyGateWitness ==
  /\ Installing("t1") /\ pc["t1"] = "done"
  /\ config.policy = "Optional" /\ config.verifier = None
  /\ loc["t1"].info.integrity # None /\ loc["t1"].checked
  /\ files[<<"Remote", "app", "v2">>] = loc["t1"].info.data

\* the policy's integrity stage lets the response through
PolicyPasses(i) ==
  /\ config.policy = "Strict" => i.integrity # None
  /\ (config.policy # "Disabled" /\ i.integrity # None)
       => IntegrityCheck(i.integrity, i.data)

\* C10 (as the code has it): with a verifier configured a bundle is installed
\* only if integrity and signature are present and the verifier answers true.
\* The policy's integrity stage runs first and fails IntegrityVerifyFailed,
\* also for an absent integrity value under Strict; after it an absent
\* integrity value fails IntegrityRequired, an absent signature
\* SignatureNotExists, a signature the verifier cannot parse InvalidSignature
\* and a signature it rejects SignatureVerifyFailed.
SignatureGate ==
  \A t \in Tasks :
    LET i == loc[t].info
    IN (PastVerify(t) /\ config.verifier # None) =>
         /\ Installing(t) => ( /\ i.integrity # None /\ i.signature # None
                               /\ RetEq(VerifySignature(i.integrity, i.signature), Ok(TRUE)) )
         /\ (config.policy = "Strict" /\ i.integrity = None)
              => Failed(t, "IntegrityVerifyFailed")
         /\ (PolicyPasses(i) /\ i.integrity = None) => Failed(t, "IntegrityRequired")
         /\ (PolicyPasses(i) /\ i.integrity # None /\ i.signature = None)
              => Failed(t, "SignatureNotExists")
         /\ (PolicyPasses(i) /\ i.integrity # None /\ i.signature # None)
              => LET r == VerifySignature(i.integrity, i.signature)
                 IN /\ ~r.ok => Failed(t, r.val)
                    /\ (r.ok /\ ~r.val) => Failed(t, "SignatureVerifyFailed")

\* a response whose signature the verifier cannot parse failed with the
\* verifier's own error
SignatureGateWitness ==
  /\ PastVerify("t1") /\ config.verifier # None
  /\ loc["t1"].info.signature = "malformed"
  /\ Failed("t1", "InvalidSignature")

\* C10 as stated: once the policy's stage has passed, every response for which
\* the verifier does not answer true fails SignatureVerifyFailed.
SignatureGateAsStated ==
  \A t \in Tasks :
    LET i == loc[t].info
    IN (PastVerify(t) /\ config.verifier # None /\ PolicyPasses(i)) =>
         /\ Installing(t) => ( /\ i.integrity # None /\ i.signature # None
                               /\ RetEq(VerifySignature(i.integrity, i.signature), Ok(TRUE)) )
         /\ i.integrity = None => Failed(t, "IntegrityRequired")
         /\ (i.integrity # None /\ i.signature = None) => Failed(t, "SignatureNotExists")
         /\ ( /\ i.integrity # None /\ i.signature # None
              /\ ~RetEq(VerifySignature(i.integrity, i.signature), Ok(TRUE)) )
              => Failed(t, "SignatureVerifyFailed")

---------------------------------------------------------------------------
(* SpecRetry: one client loads and unloads the descriptor of app, call    *)
(* after call, while the remote tier is being repaired.  The remote       *)
(* manifest is empty, or lists app at v2 with its file missing or not a   *)
(* bundle; write_remote_bundle puts a sound file in place.                *)

RemoteV2 == Put(Empty, "app", [versions |-> Put(Empty, "v2", Plain),
                               current_version |-> "v2"])

InitRetry ==
  /\ builtin = Empty
  /\ \/ remote = Empty /\ files = Empty
     \/ remote = RemoteV2 /\ files = Empty
     \/ remote = RemoteV2 /\ files = Put(Empty, <<"Remote", "app", "v2">>, Corrupt)
  /\ origin = Empty
  /\ InitCache /\ InitTasks /\ InitGhosts /\ NoSetup

RetryCalls ==
  { MkCall("load_descriptor", "app", None, None) }
  \cup { MkCall("write_remote_bundle", "app", "v2", Offer(id)) : id \in {"b2", "b3"} }

BeginRetry ==
  /\ \A u \in Tasks : Idle(u)
  /\ \/ \E c \in RetryCalls : Begin("t1", c)
     \/ /\ epoch["app"] < MaxUnloads
        /\ Begin("t1", MkCall("unload_descriptor", "app", None, None))

NextRetry ==
  \/ BeginRetry
  \/ \E t \in Tasks :
       \/ LdGet(t)
       \/ LdEntry(t)
       \/ LdInit(t)
       \/ Lv(t)
       \/ OpenInit(t)
       \/ Unload(t)
       \/ WriteFile(t)
       \/ WriteInsert(t)

SpecRetry == InitRetry /\ [][NextRetry]_vars

\* the file load_version and filepath lead to for bundle b: "none" when no
\* version resolves or the file is missing
FileOf(b) ==
  LET sv == Resolved(remote, b)
  IN IF sv = NoVer \/ FilePath(sv, b) \notin DOMAIN files
       THEN "none"
       ELSE files[FilePath(sv, b)]

\* C15: a load_descriptor whose initialization fails returns the error and
\* leaves nothing cached and no permit taken; a load_descriptor that finds
\* nothing cached, an earlier failure or not, runs the initialization (one
\* read of the file as it is now) and returns the descriptor of a sound file.
RetryAfterFailure ==
  \A t \in Tasks :
    Did(t, "load_descriptor") =>
      /\ ~ret[t].ok =>
           /\ Cached(call[t].name) = 0
           /\ \A c \in DOMAIN cells : cells[c].permit = None
           /\ snap[t].cached = 0
      /\ snap[t].cached = 0 =>
           CASE FileOf(call[t].name) = "none" -> RetEq(ret[t], Err("BundleNotFound"))
             [] FileOf(call[t].name) = Corrupt -> RetEq(ret[t], Err("InvalidMagicNum"))
             [] OTHER -> /\ ret[t].ok
                         /\ arcs[ret[t].val].id = FileOf(call[t].name)
                         /\ attempts[call[t].name].reads = 1

\* a load that found the empty cell a failed initialization left in the map,
\* ran the initialization in that cell and succeeded
RetryAfterFailureWitness ==
  /\ Did("t1", "load_descriptor") /\ ret["t1"].ok
  /\ snap["t1"].cell # 0 /\ snap["t1"].cached = 0
  /\ loc["t1"].cell = snap["t1"].cell
  /\ epoch["app"] = 0
  /\ attempts["app"].reads = 1

---------------------------------------------------------------------------
(* Requests to the protocol, one after another, over bundles that do not
   change: for a bundle that is installed, one no manifest lists, one whose
   file is missing and a URI that names no bundle *)

MaxOff == 5

Ranges ==
  {NoRange, Malformed}
  \cup { Bytes(first, last) : first \in 0..MaxOff, last \in {Open} \cup 0..MaxOff }

\* Range headers of two specs and one of three
SomeSpecs == { <<0, 1>>, <<1, 3>>, <<4, 4>>, <<3, Open>>, <<MaxOff, MaxOff>>, <<2, 1>> }

SeveralRanges ==
  { Several(<<a, b>>) : a \in SomeSpecs, b \in SomeSpecs }
  \cup { Several(<< <<4, 4>>, <<0, 1>>, <<1, 3>> >>) }

InitProtocol ==
  /\ builtin \in {BuiltinApp, BuiltinAppLib}
  /\ remote = Empty
  /\ files \in { Put(Empty, <<"Builtin", "app", "v1">>, id) : id \in {"b1", "b3", "b4"} }
  /\ origin = Empty
  /\ InitCache /\ InitTasks /\ InitGhosts /\ NoSetup

\* every name, method and path without a Range header and with one, and
\* every Range header for the entry all bundles store (the header is read
\* only once the entry is found)
ProtocolCalls ==
  { MkCall("handle", b, None, [method |-> m, path |-> p, range |-> r]) :
      b \in Names \cup {None}, m \in Methods, p \in Paths, r \in {NoRange, Bytes(0, 1)} }
  \cup { MkCall("handle", "app", None, [method |-> m, path |-> "/index.html", range |-> r]) :
           m \in {"GET", "HEAD"}, r \in Ranges \cup SeveralRanges }

BeginProtocol ==
  /\ \A u \in Tasks : Idle(u)
  /\ \E c \in ProtocolCalls : Begin("t1", c)

NextProtocol ==
  \/ BeginProtocol
  \/ \E t \in Tasks :
       \/ HMethod(t)
       \/ LdGet(t)
       \/ LdEntry(t)
       \/ LdInit(t)
       \/ Lv(t)
       \/ OpenInit(t)
       \/ HEntry(t)
       \/ OpenBody(t)

SpecProtocol == InitProtocol /\ [][NextProtocol]_vars

\* a request that was answered, for a URI that names a bundle
Handled(t) == Did(t, "handle") /\ call[t].name # None

\* a GET or HEAD that was answered for a path the bundle installed under
\* the name stores
Hit(t) ==
  /\ Handled(t)
  /\ call[t].arg.method \in {"GET", "HEAD"}
  /\ FileOf(call[t].name) \in BundleIds
  /\ call[t].arg.path \in PathsOf(FileOf(call[t].name))

MissingBundleOrPath ==
  \A t \in Tasks :
    (Did(t, "handle") /\ call[t].arg.method \in {"GET", "HEAD"}) =>
      /\ (call[t].name = None \/ FileOf(call[t].name) = "none")
           => RetEq(ret[t], Err("BundleNotFound"))
      /\ (Handled(t) /\ FileOf(call[t].name) \in BundleIds
            /\ call[t].arg.path \notin PathsOf(FileOf(call[t].name)))
           => RetEq(ret[t], Response(404, NoHeaders, <<>>))

\* a GET answered 404 for a path the bundle lacks, after a request for a
\* bundle that could not be resolved left its cell empty
MissingBundleOrPathWitness ==
  /\ Handled("t1") /\ call["t1"].arg.method = "GET"
  /\ call["t1"].name = "app" /\ call["t1"].arg.path = "/nope"
  /\ ret["t1"].ok /\ ret["t1"].val.status = 404
  /\ "lib" \in DOMAIN descriptors /\ Cached("lib") = 0

\* the headers the entry stores, content-type replaced by its content type
\* and content-length set to the length of its body
ExpectedHeaders(e) ==
  [x \in DOMAIN e.headers \cup {"content-type", "content-length"} |->
     IF x = "content-type" THEN e.content_type
     ELSE IF x = "content-length" THEN Len(e.body)
     ELSE e.headers[x]]

\* C18: a GET or HEAD without a Range header for a stored entry is answered
\* 200 with the stored headers, content-type replaced and content-length
\* set; the body is empty for HEAD and the entry's bytes for GET.
PlainResponse ==
  \A t \in Tasks :
    (Hit(t) /\ call[t].arg.range = NoRange) =>
      LET e == EntryOf(FileOf(call[t].name), call[t].arg.path)
      IN RetEq(ret[t], Response(200, ExpectedHeaders(e),
                                IF call[t].arg.method = "HEAD" THEN <<>> ELSE e.body))

\* a GET answered 200 for an entry whose stored headers hold a content-type
\* other than the entry's own
PlainResponseWitness ==
  /\ Hit("t1") /\ call["t1"].arg.method = "GET" /\ call["t1"].arg.range = NoRange
  /\ FileOf(call["t1"].name) = "b4"
  /\ ret["t1"].ok /\ ret["t1"].val.status = 200
  /\ ret["t1"].val.headers["content-type"] = "text/html"
  /\ ret["t1"].val.body = <<3, 1, 4, 1, 5>>

\* a Range header that asks for first-last inside an entry of length len
Inside(r, len) ==
  /\ r.kind = "bytes" /\ r.more = <<>>
  /\ r.last # Open /\ r.first <= r.last /\ r.last < len

\* the end the contract normalizes a range to
NormalEnd(start, end, len) == start + Min(Min(end - start, len - start - 1), MAX_LEN - 1)

\* C19: a GET or HEAD with one satisfiable range start-end for a stored
\* entry of length len is answered 206 with accept-ranges bytes,
\* content-range start-end'/len and content-length end' - start + 1, end'
\* the normalized end; the body is empty for HEAD and bytes start..=end' of
\* the entry for GET.
SingleRange ==
  \A t \in Tasks :
    Hit(t) =>
      LET e == EntryOf(FileOf(call[t].name), call[t].arg.path)
          r == call[t].arg.range
          len == Len(e.body)
          end == NormalEnd(r.first, r.last, len)
      IN Inside(r, len) =>
           /\ ret[t].ok
           /\ ret[t].val.status = 206
           /\ ret[t].val.headers["accept-ranges"] = "bytes"
           /\ ret[t].val.headers["content-range"] = ContentRange(r.first, end, len)
           /\ ret[t].val.headers["content-length"] = end - r.first + 1
           /\ ret[t].val.body = IF call[t].arg.method = "HEAD"
                                  THEN <<>>
                                  ELSE SubSeq(e.body, r.first + 1, end + 1)

\* a GET for bytes 1-3 of a five-byte entry, answered with those bytes
SingleRangeWitness ==
  /\ Hit("t1") /\ call["t1"].arg.method = "GET"
  /\ FileOf(call["t1"].name) = "b4"
  /\ call["t1"].arg.range = Bytes(1, 3)
  /\ ret["t1"].ok /\ ret["t1"].val.status = 206
  /\ ret["t1"].val.body = <<1, 4, 1>>

\* a Range header no range of an entry of length len can be read from: not
\* parseable, last before first, or first at or past len
Refused(r, len) ==
  \/ r.kind = "malformed"
  \/ r.kind = "bytes" /\ r.more = <<>> /\ r.last # Open /\ r.last < r.first
  \/ r.kind = "bytes" /\ r.more = <<>> /\ r.first >= len

\* C21: a GET or HEAD for a stored entry of length len whose Range header
\* cannot be parsed against len, or whose one range is unsatisfiable, is
\* answered 416 with content-range */len and an empty body.
RangeRefused ==
  \A t \in Tasks :
    Hit(t) =>
      LET e == EntryOf(FileOf(call[t].name), call[t].arg.path)
          len == Len(e.body)
      IN Refused(call[t].arg.range, len) =>
           /\ ret[t].ok
           /\ ret[t].val.status = 416
           /\ "content-range" \in DOMAIN ret[t].val.headers
           /\ ret[t].val.headers["content-range"] = Unsatisfied(len)
           /\ ret[t].val.body = <<>>

\* a GET for the range 5-5 of a five-byte entry, answered 416
RangeRefusedWitness ==
  /\ Hit("t1") /\ call["t1"].arg.method = "GET"
  /\ FileOf(call["t1"].name) = "b4"
  /\ call["t1"].arg.range = Bytes(5, 5)
  /\ ret["t1"].ok /\ ret["t1"].val.status = 416

\* a Range header of several specs, each inside an entry of length len
AllInside(r, len) ==
  /\ r.kind = "bytes" /\ r.more # <<>>
  /\ \A i \in 1..Len(SpecsOf(r)) :
       LET spec == SpecsOf(r)[i]
       IN spec[2] # Open /\ spec[1] <= spec[2] /\ spec[2] < len

\* the body the contract gives the answer to the specs: for each, in the
\* order of the request, separator, content-type line, content-range line,
\* empty line and the bytes of the range; then the closing separator
RECURSIVE ExpectedParts(_, _, _)
ExpectedParts(specs, boundary, e) ==
  IF specs = <<>> THEN <<Separator(boundary)>>
  ELSE LET start == Head(specs)[1]
           end == NormalEnd(start, Head(specs)[2], Len(e.body))
       IN << Separator(boundary), TypeLine(e.content_type),
             RangeLine(start, end, Len(e.body)), EmptyLine >>
          \o SubSeq(e.body, start + 1, end + 1)
          \o ExpectedParts(Tail(specs), boundary, e)

\* C22: a GET or HEAD with several ranges for a stored entry is answered
\* 206 with content-type multipart/byteranges; boundary=b for a boundary b;
\* the body of a GET is the parts of the ranges in request order under that
\* boundary and one closing separator, the body of a HEAD is empty.
SeveralRangesResponse ==
  \A t \in Tasks :
    Hit(t) =>
      LET e == EntryOf(FileOf(call[t].name), call[t].arg.path)
          r == call[t].arg.range
      IN AllInside(r, Len(e.body)) =>
           /\ ret[t].ok
           /\ ret[t].val.status = 206
           /\ \E b \in Boundaries :
                /\ ret[t].val.headers["content-type"] = "multipart/byteranges; boundary=" \o b
                /\ Len(ret[t].val.body) =
                     IF call[t].arg.method = "HEAD"
                       THEN 0 ELSE Len(ExpectedParts(SpecsOf(r), b, e))
                /\ call[t].arg.method = "GET"
                     => ret[t].val.body = ExpectedParts(SpecsOf(r), b, e)

\* a GET for the ranges 4-4, 0-1 and 1-3 of a five-byte entry, answered
\* with three parts in that order
SeveralRangesResponseWitness ==
  /\ Hit("t1") /\ call["t1"].arg.method = "GET"
  /\ FileOf(call["t1"].name) = "b4"
  /\ call["t1"].arg.range = Several(<< <<4, 4>>, <<0, 1>>, <<1, 3>> >>)
  /\ ret["t1"].ok /\ ret["t1"].val.status = 206
  /\ Len(ret["t1"].val.body) = 19
  /\ ret["t1"].val.body[5] = 5

---------------------------------------------------------------------------
(* adjust_end over offsets and lengths around the most bytes one range
   serves *)

Offsets == {0, 1, 2, MAX_LEN - 2, MAX_LEN - 1, MAX_LEN, MAX_LEN + 1, 2 * MAX_LEN}

InitRange ==
  /\ builtin = Empty /\ remote = Empty /\ files = Empty
  /\ origin = Empty
  /\ InitCache /\ InitTasks /\ InitGhosts /\ NoSetup

RangeCalls ==
  { MkCall("adjust_end", None, None, [start |-> a, end |-> b, len |-> n]) :
      a \in Offsets, b \in Offsets, n \in Offsets }

BeginRange ==
  /\ \A u \in Tasks : Idle(u)
  /\ \E c \in RangeCalls : Begin("t1", c)

NextRange ==
  \/ BeginRange
  \/ \E t \in Tasks : Adjust(t)

SpecRange == InitRange /\ [][NextRange]_vars

\* C20: for start <= end < len, adjust_end answers
\* start + min(end - start, len - start - 1, MAX - 1): the range served ends
\* at or before byte len - 1 and the requested end, spans at most MAX bytes,
\* and no subtraction goes below zero.
EndNormalized ==
  \A t \in Tasks :
    Did(t, "adjust_end") =>
      LET start == call[t].arg.start
          end == call[t].arg.end
          len == call[t].arg.len
          got == ret[t].val
      IN (start <= end /\ end < len) =>
           /\ got.end = NormalEnd(start, end, len)
           /\ got.end <= len - 1
           /\ got.end <= end
           /\ start <= got.end
           /\ got.end - start + 1 <= MAX_LEN
           /\ ~got.underflow

\* a range of MAX + 1 bytes inside a longer entry, cut to MAX bytes
EndNormalizedWitness ==
  /\ Did("t1", "adjust_end")
  /\ call["t1"].arg = [start |-> 1, end |-> MAX_LEN + 1, len |-> 2 * MAX_LEN]
  /\ ret["t1"].val.end = MAX_LEN

---------------------------------------------------------------------------
(* random_boundary over what getrandom can fill in: thirty equal bytes of
   every value, and low bytes followed by high ones *)

ByteValues == 0..255

Mixed(k) == [i \in 1..BOUNDARY_BYTES |-> IF i <= k THEN 7 ELSE 200]

InitBoundary ==
  /\ builtin = Empty /\ remote = Empty /\ files = Empty
  /\ origin = Empty
  /\ InitCache /\ InitTasks /\ InitGhosts /\ NoSetup

BoundaryCalls ==
  { MkCall("random_boundary", None, None, Filled(val)) : val \in ByteValues }
  \cup { MkCall("random_boundary", None, None, Mixed(k)) : k \in 0..BOUNDARY_BYTES }

BeginBoundary ==
  /\ \A u \in Tasks : Idle(u)
  /\ \E c \in BoundaryCalls : Begin("t1", c)

NextBoundary ==
  \/ BeginBoundary
  \/ \E t \in Tasks : Boundary(t)

SpecBoundary == InitBoundary /\ [][NextBoundary]_vars

\* C23: the boundary random_boundary builds from its thirty random bytes
\* has at least sixty characters.
BoundaryLength ==
  \A t \in Tasks :
    Did(t, "random_boundary") => Len(ret[t].val) >= 2 * BOUNDARY_BYTES

---------------------------------------------------------------------------
(* Bundles built from a mapping, written, and read back: as written, and
   with bits of the written bytes changed *)

\* the orders a map of these paths can iterate in
Orders2(S) == { o \in [1..Cardinality(S) -> S] : \A p \in S : \E i \in DOMAIN o : o[i] = p }

\* the byte regions of the file written for a mapping
IndexRegion(id) ==
  END_OFFSET .. (IndexEndOffset(Build(id, SeqOf(PathsOf(id)))) - 1)

FirstEntryRegion(id) ==
  LET built == Build(id, SeqOf(PathsOf(id)))
      first == built.index[SeqOf(PathsOf(id))[1]]
  IN (IndexEndOffset(built) + first.offset) .. (IndexEndOffset(built) + first.offset + first.len - 1)

HeaderRegion == 0 .. (END_OFFSET - 1)

Bits == 0..7

\* one bit changed anywhere in the three regions
SingleFlips(id) ==
  { {<<pos, bit>>} : pos \in HeaderRegion \cup IndexRegion(id) \cup FirstEntryRegion(id),
                     bit \in Bits }

\* bits changed together in the magic, the version, the index size, the
\* header checksum and the index
HeaderFlips == SUBSET { <<0, 0>>, <<8, 1>>, <<12, 0>>, <<16, 0>>, <<END_OFFSET, 0>> }

ReadCall(id, order, paths, flips, verify, path) ==
  MkCall("read", None, None, [id |-> id, order |-> order, paths |-> paths,
                              flips |-> flips, verify |-> verify, path |-> path])

CodecCalls ==
  { ReadCall(id, order, paths, {}, verify, path) :
      id \in BundleIds, order \in UNION { Orders2(PathsOf(i)) : i \in BundleIds },
      paths \in UNION { Orders2(PathsOf(i)) : i \in BundleIds },
      verify \in BOOLEAN, path \in Paths }
  \cup { ReadCall(id, SeqOf(PathsOf(id)), SeqOf(PathsOf(id)), flips, TRUE, "/index.html") :
           id \in {"b1", "b4"}, flips \in UNION { SingleFlips(i) : i \in {"b1", "b4"} } }
  \cup { ReadCall("b1", SeqOf(PathsOf("b1")), SeqOf(PathsOf("b1")), flips, verify, "/index.html") :
           flips \in HeaderFlips, verify \in BOOLEAN }

\* a call whose orders list the paths of its mapping and whose flips lie in
\* its file
WellFormed(c) ==
  /\ { c.arg.order[i] : i \in DOMAIN c.arg.order } = PathsOf(c.arg.id)
  /\ { c.arg.paths[i] : i \in DOMAIN c.arg.paths } = PathsOf(c.arg.id)
  /\ Len(c.arg.order) = Cardinality(PathsOf(c.arg.id))
  /\ Len(c.arg.paths) = Cardinality(PathsOf(c.arg.id))
  /\ \A f \in c.arg.flips :
       f[1] \in HeaderRegion \cup IndexRegion(c.arg.id) \cup FirstEntryRegion(c.arg.id)

InitCodec ==
  /\ builtin = Empty /\ remote = Empty /\ files = Empty
  /\ origin = Empty
  /\ InitCache /\ InitTasks /\ InitGhosts /\ NoSetup

BeginCodec ==
  /\ \A u \in Tasks : pc[u] = "idle"
  /\ \E c \in CodecCalls : WellFormed(c) /\ Begin("t1", c)

NextCodec ==
  \/ BeginCodec
  \/ \E t \in Tasks :
       \/ CodecBuild(t)
       \/ CodecWrite(t)
       \/ CodecCorrupt(t)
       \/ CodecRead(t)

SpecCodec == InitCodec /\ [][NextCodec]_vars

\* a finished read of the bytes as they were written
ReadBack(t) == Did(t, "read") /\ call[t].arg.flips = {}

\* the header map a stored header set decodes to
ExpectedHeaderMap(headers) ==
  [n \in { Utf8(k) : k \in DOMAIN headers } |->
     << Utf8(headers[CHOOSE k \in DOMAIN headers : Utf8(k) = n]) >>]

\* C24: a bundle built from a mapping of paths to bytes, content type and
\* headers, written and read back, has exactly the paths of the mapping in
\* its index, each with its content type, its headers and the length of
\* its original bytes; get_data gives the original bytes of a path of the
\* mapping and None for any other path
RoundTrip ==
  \A t \in Tasks :
    ReadBack(t) =>
      LET id == call[t].arg.id
          path == call[t].arg.path
      IN /\ ret[t].ok
         /\ DOMAIN ret[t].val.index = { Utf8(p) : p \in PathsOf(id) }
         /\ \A p \in PathsOf(id) :
              LET got == ret[t].val.index[Utf8(p)]
                  e == EntryOf(id, p)
              IN /\ got.content_type = Utf8(e.content_type)
                 /\ got.headers = ExpectedHeaderMap(e.headers)
                 /\ got.content_length = Len(e.body)
         /\ IF path \in PathsOf(id)
              THEN ret[t].val.data = BodyOf(id, path)
              ELSE ret[t].val.data = NoData

\* a mapping with stored headers read back, and a path outside a mapping
RoundTripWitness ==
  \E t \in Tasks :
    /\ ReadBack(t)
    /\ call[t].arg.id = "b4"
    /\ call[t].arg.path = "/index.html"
    /\ ret[t].ok
    /\ ret[t].val.data = <<3, 1, 4, 1, 5>>
    /\ DOMAIN ret[t].val.index[Utf8("/index.html")].headers
         = { Utf8("cache-control"), Utf8("content-type") }

\* the bundle is built and written, and the bytes are as the writer left
\* them
Written(t) == call[t].op = "read" /\ pc[t] = "c_stored"

\* the sum over the entries of compressed length + 4
RECURSIVE DataLength(_)
DataLength(entries) ==
  IF entries = <<>> THEN 0
  ELSE Len(Compress(Head(entries).body)) + CHECKSUM_LEN + DataLength(Tail(entries))

\* C27: BundleWriter::write returns 17 + index_size + 4 + the length of
\* the data section; the index_size of the header is the byte length of
\* the encoded index mapping without its checksum, and the data section
\* is as long as the sum over the entries of compressed length + 4
WriteSize ==
  \A t \in Tasks :
    Written(t) =>
      LET entries == Entries(call[t].arg.id, call[t].arg.order)
          bytes == loc[t].out.bytes
          index_size == FromBeBytes(SubSeq(bytes, 10, 13))
          data == SubSeq(bytes, END_OFFSET + index_size + CHECKSUM_LEN + 1, Len(bytes))
      IN /\ loc[t].out.written = END_OFFSET + index_size + CHECKSUM_LEN + Len(data)
         /\ loc[t].out.written = Len(bytes)
         /\ index_size = IndexSize(entries)
         /\ index_size = Len(EncodeIndex(loc[t].built.index, call[t].arg.paths))
         /\ data = loc[t].built.data
         /\ Len(data) = DataLength(entries)

\* a mapping of two paths written: 17 + 53 + 4 + 19 bytes
WriteSizeWitness ==
  \E t \in Tasks :
    /\ Written(t)
    /\ call[t].arg.id = "b3"
    /\ loc[t].out.written = END_OFFSET + 53 + CHECKSUM_LEN + 19
    /\ Len(loc[t].built.data) = 19

\* the bundle is built
Built(t) == call[t].op = "read" /\ pc[t] = "c_write"

\* the bytes of the data section an index entry names, and the four after
Region(t, p) ==
  LET e == loc[t].built.index[p]
  IN SubSeq(loc[t].built.data, e.offset + 1, e.offset + e.len + CHECKSUM_LEN)

\* C30: in a built bundle the offsets start at 0 and advance by len + 4 in
\* the order the entries are laid out, the regions [offset, offset+len+4)
\* lie in the data section and do not overlap, and the bytes at
\* [offset, offset+len) are the compressed payload of the path, followed
\* by its checksum
BuildOffsets ==
  \A t \in Tasks :
    Built(t) =>
      LET id == call[t].arg.id
          order == call[t].arg.order
          index == loc[t].built.index
          data == loc[t].built.data
      IN /\ index[order[1]].offset = 0
         /\ \A i \in 1..(Len(order) - 1) :
              index[order[i + 1]].offset
                = index[order[i]].offset + index[order[i]].len + CHECKSUM_LEN
         /\ \A p \in PathsOf(id) :
              /\ index[p].offset + index[p].len + CHECKSUM_LEN <= Len(data)
              /\ Region(t, p) = Compress(BodyOf(id, p)) \o ChecksumBytes(Compress(BodyOf(id, p)))
              /\ index[p].len = Len(Compress(BodyOf(id, p)))
         /\ \A p, q \in PathsOf(id) :
              p # q =>
                \/ index[p].offset + index[p].len + CHECKSUM_LEN <= index[q].offset
                \/ index[q].offset + index[q].len + CHECKSUM_LEN <= index[p].offset

\* two entries of different lengths laid out with /index.html first
BuildOffsetsWitness ==
  \E t \in Tasks :
    /\ Built(t)
    /\ call[t].arg.id = "b3"
    /\ call[t].arg.order = <<"/index.html", "/a.js">>
    /\ loc[t].built.index["/index.html"].offset = 0
    /\ loc[t].built.index["/a.js"].offset = 10

\* the read failed with this error
ReadFailed(t, error) == ~ret[t].ok /\ ret[t].val = error

\* C26: HeaderReader::read fails with InvalidMagicNum when the first 8
\* bytes are not the magic and with InvalidVersion when byte 8 is not
\* 0x01; the magic is looked at before the version, and both before the
\* header checksum is verified or a byte of the index is read; the 17
\* bytes HeaderWriter wrote (magic, version, big-endian index size,
\* checksum of the first 13 bytes) read back as the header written
HeaderPrecedence ==
  \A t \in Tasks :
    Did(t, "read") =>
      LET bytes == loc[t].out.bytes
          magic == SubSeq(bytes, 1, 8)
          version == bytes[9]
      IN /\ magic # MAGIC => ReadFailed(t, "InvalidMagicNum")
         /\ (magic = MAGIC /\ version # 1) => ReadFailed(t, "InvalidVersion")
         /\ ReadFailed(t, "InvalidMagicNum") => magic # MAGIC
         /\ ReadFailed(t, "InvalidVersion") => (magic = MAGIC /\ version # 1)
         /\ call[t].arg.flips = {} =>
              /\ ret[t].ok
              /\ ret[t].val.index_size = loc[t].built.index_size
              /\ SubSeq(bytes, 1, END_OFFSET)
                   = MAGIC \o <<1>> \o BeBytes(loc[t].built.index_size)
                       \o ChecksumBytes(SubSeq(bytes, 1, CHECKSUM_OFFSET))

\* magic, version, index size, header checksum and index all changed,
\* the checksums verified: the magic is what the read reports
HeaderPrecedenceWitness ==
  \E t \in Tasks :
    /\ Did(t, "read")
    /\ call[t].arg.verify
    /\ call[t].arg.flips = { <<0, 0>>, <<8, 1>>, <<12, 0>>, <<16, 0>>, <<END_OFFSET, 0>> }
    /\ ReadFailed(t, "InvalidMagicNum")

\* a finished read, checksums verified, of bytes with one bit changed at an
\* offset of this set
OneBitIn(t, region) ==
  /\ Did(t, "read")
  /\ call[t].arg.verify
  /\ \E pos \in region, bit \in Bits : call[t].arg.flips = { <<pos, bit>> }

\* C25: a read that verifies checksums rejects a written bundle with any
\* single bit changed: in the header region it fails with
\* InvalidHeaderChecksum, in the index region with InvalidIndexChecksum,
\* and in the first entry's compressed region it fails instead of
\* returning data
ChecksumDetection ==
  \A t \in Tasks :
    /\ OneBitIn(t, HeaderRegion) => ReadFailed(t, "InvalidHeaderChecksum")
    /\ OneBitIn(t, IndexRegion(call[t].arg.id)) => ReadFailed(t, "InvalidIndexChecksum")
    /\ OneBitIn(t, FirstEntryRegion(call[t].arg.id)) => ~ret[t].ok

\* the entry part of the detection alone: no data comes back from a first
\* entry with one bit changed
EntryFlipRejected ==
  \A t \in Tasks : OneBitIn(t, FirstEntryRegion(call[t].arg.id)) => ~ret[t].ok

\* the header and index parts of the detection, for bits outside the magic
\* and the version, and with a decoding failure counted as a rejection
HeaderFlipRejected ==
  \A t \in Tasks :
    OneBitIn(t, 9 .. (END_OFFSET - 1)) => ReadFailed(t, "InvalidHeaderChecksum")

IndexFlipRejected ==
  \A t \in Tasks :
    OneBitIn(t, IndexRegion(call[t].arg.id)) =>
      \/ ReadFailed(t, "InvalidIndexChecksum")
      \/ ReadFailed(t, "Decode")

---------------------------------------------------------------------------
(* SpecAvailable: get_update and update_version, call after call, over    *)
(* every combination of a builtin tier, a remote tier and the versions    *)
(* the server deploys.                                                     *)

Deployed(b, v) == [name |-> b, version |-> v, integrity |-> None,
                   signature |-> None, data |-> "b2"]

\* the server deploys one version of app, and one version of lib or none
Deployments ==
  { {Deployed("app", v)} : v \in Versions }
  \cup { {Deployed("app", v), Deployed("lib", w)} : v \in Versions, w \in Versions }

InitAvailable ==
  /\ builtin \in {Empty, BuiltinApp, BuiltinAppLib}
  /\ remote \in {Empty, RemoteApp, RemoteAppBoth}
  /\ files = Empty
  /\ config = NoConfig
  /\ server \in Deployments
  /\ origin = Empty
  /\ InitCache /\ InitTasks /\ InitGhosts

AvailableCalls ==
  { MkCall("get_update", b, None, None) : b \in Names }
  \cup { MkCall("update_version", b, v, None) : b \in Names, v \in Versions }

BeginAvailable ==
  /\ \A u \in Tasks : Idle(u)
  /\ \E c \in AvailableCalls : Begin("t1", c)

NextAvailable ==
  \/ BeginAvailable
  \/ \E t \in Tasks :
       \/ GetCurrentInfo(t)
       \/ GetUpdateInfo(t)
       \/ UpdateCheck(t)
       \/ UpdateWrite(t)

SpecAvailable == InitAvailable /\ [][NextAvailable]_vars

\* get_update(b) answered with an update info
Informed(t) == Did(t, "get_update") /\ ret[t].ok

UpdateAvailabilityFresh ==
  \E t \in Tasks :
    /\ Informed(t)
    /\ call[t].name = "lib"
    /\ ret[t].val.local_version = None
    /\ ret[t].val.is_available

---------------------------------------------------------------------------
(* SpecSave: a ReadWrite manifest loaded from its file, changed in memory  *)
(* and saved, call after call.                                             *)

InitSave ==
  /\ remote \in ManifestEntries({"app"})
  /\ builtin = Empty
  /\ files = Put(Empty, ManifestFile, Json(remote))
  /\ origin = Empty
  /\ InitCache /\ InitTasks /\ InitGhosts /\ NoSetup

SaveCalls ==
  { MkCall("insert_entry", "app", v, Plain) : v \in Versions }
  \cup { MkCall("update_current_version", "app", v, None) : v \in Versions }
  \cup { MkCall("save", None, None, None) }

BeginSave ==
  /\ \A u \in Tasks : Idle(u)
  /\ \E c \in SaveCalls : Begin("t1", c)

NextSave ==
  \/ BeginSave
  \/ \E t \in Tasks :
       \/ InsertEntry(t)
       \/ UpdateCheck(t)
       \/ UpdateWrite(t)
       \/ SaveSerialize(t)
       \/ SaveCreate(t)
       \/ SaveWrite(t)
       \/ SaveFail(t)

SpecSave == InitSave /\ [][NextSave]_vars

\* a save is under way, or has failed
Saving(t) == call[t].op = "save" /\ pc[t] \in {"sv_create", "sv_write", "done"}

\* C29: save() replaces the manifest file atomically: at every point of a
\* save, also one that fails midway, the file holds the complete previous
\* document or the complete new one
SaveAtomic ==
  \A t \in Tasks :
    Saving(t) =>
      \/ files[ManifestFile] = snap[t].files[ManifestFile]
      \/ files[ManifestFile] = loc[t].out.bytes

\* a save that failed midway and left a part of the new document
SaveTorn ==
  \E t \in Tasks :
    /\ Did(t, "save") /\ ~ret[t].ok
    /\ files[ManifestFile] # snap[t].files[ManifestFile]
    /\ files[ManifestFile] # loc[t].out.bytes

\* a save that went through
SaveDone ==
  \E t \in Tasks :
    /\ Did(t, "save") /\ ret[t].ok
    /\ files[ManifestFile] = Json(remote)
    /\ files[ManifestFile] # snap[t].files[ManifestFile]

---------------------------------------------------------------------------
(* The readers with their default options, over SpecCodec *)

\* the stored header checksum, or the stored index checksum, is not the
\* checksum of the bytes it covers
ChecksumMismatch(bytes) ==
  LET size == FromBeBytes(SubSeq(bytes, 10, 13))
  IN \/ SubSeq(bytes, CHECKSUM_OFFSET + 1, END_OFFSET)
          # ChecksumBytes(SubSeq(bytes, 1, CHECKSUM_OFFSET))
     \/ /\ END_OFFSET + size + CHECKSUM_LEN <= Len(bytes)
        /\ SubSeq(bytes, END_OFFSET + size + 1, END_OFFSET + size + CHECKSUM_LEN)
             # ChecksumBytes(SubSeq(bytes, END_OFFSET + 1, END_OFFSET + size))

\* a finished read with the options BundleReader::new gives its readers
DefaultRead(t) == Did(t, "read") /\ ~call[t].arg.verify

\* C40: the read path of BundleSource and of Remote downloads, the bundle
\* readers with their default options, rejects a bundle whose stored
\* header checksum or index checksum does not match the bytes it covers
DefaultReadRejects ==
  \A t \in Tasks :
    (DefaultRead(t) /\ ChecksumMismatch(loc[t].out.bytes)) => ~ret[t].ok

\* a default read that returned the data of a bundle whose header checksum
\* is not that of its header
DefaultReadAccepts ==
  \E t \in Tasks :
    /\ DefaultRead(t)
    /\ call[t].arg.flips = { <<16, 0>> }
    /\ ret[t].ok
    /\ ret[t].val.data = <<1, 0>>

---------------------------------------------------------------------------
(* The content-length of an answer against the bytes of its body, over
   SpecProtocol *)

\* the characters a number is formatted with
Digits(n) == IF n < 10 THEN 1 ELSE IF n < 100 THEN 2 ELSE 3

\* the bytes of format!("\r\n--{boundary}\r\n")
SeparatorBytes(boundary) == 4 + Len(boundary) + 2

\* the bytes the multipart loop writes for the ranges of the stored entry e
\* and the closing separator: per range the separator, "content-type: {type}\r\n",
\* "content-range: bytes {start}-{end}/{len}\r\n", "\r\n" and the slice
RECURSIVE MultipartBytes(_, _, _)
MultipartBytes(ranges, boundary, e) ==
  IF ranges = <<>> THEN SeparatorBytes(boundary)
  ELSE LET start == Head(ranges)[1]
           end == Head(ranges)[2]
       IN SeparatorBytes(boundary)
          + Len("content-type: ") + Len(e.content_type) + 2
          + Len("content-range: bytes ") + Digits(start) + 1 + Digits(end) + 1
            + Digits(Len(e.body)) + 2
          + 2
          + (end + 1 - start)
          + MultipartBytes(Tail(ranges), boundary, e)

\* the byte length of the body a GET was answered with
BodyBytes(t) ==
  IF loc[t].plan.boundary # ""
    THEN MultipartBytes(loc[t].plan.parts, loc[t].plan.boundary,
                        EntryOf(FileOf(call[t].name), call[t].arg.path))
    ELSE Len(ret[t].val.body)

\* a GET for a stored entry answered 200 or 206
Answered(t) ==
  /\ Hit(t) /\ call[t].arg.method = "GET"
  /\ ret[t].ok /\ ret[t].val.status \in {200, 206}

\* C37: every answer to a GET with status 200 or 206 carries a
\* content-length header equal to the byte length of its body, without a
\* range, with one range and with several.
ContentLengthMatchesBody ==
  \A t \in Tasks :
    Answered(t) =>
      /\ "content-length" \in DOMAIN ret[t].val.headers
      /\ ret[t].val.headers["content-length"] = BodyBytes(t)

\* the answers without a range and with one range carry the length of
\* their body
ContentLengthPlain ==
  \A t \in Tasks :
    (Answered(t) /\ call[t].arg.range.more = <<>>) =>
      ret[t].val.headers["content-length"] = Len(ret[t].val.body)

\* a GET of bytes 0-1 and 1-3 of the five bytes of /index.html answered 206
\* with the content-length of the entry
ContentLengthOfEntry ==
  /\ Answered("t1") /\ FileOf(call["t1"].name) = "b4"
  /\ call["t1"].arg.range = Several(<< <<0, 1>>, <<1, 3>> >>)
  /\ ret["t1"].val.headers["content-length"] = 5
  /\ BodyBytes("t1") > 5

---------------------------------------------------------------------------
(* The descriptor and the file of one GET, over SpecSystem *)

\* the step of a GET that opens the file of the version it resolved and
\* reads the entry's bytes from it
ReadsBody(t) ==
  /\ pc[t] = "open" /\ loc[t].phase = "body"
  /\ call[t].op = "handle" /\ call[t].arg.method = "GET"
  /\ FilePath(loc[t].ver, call[t].name) \in DOMAIN files
  /\ pc'[t] = "done"

\* C36: in every GET the descriptor that locates the entry was read from
\* the bundle that the file opened for the entry's bytes holds: the two
\* belong to the same version of the bundle.
DescriptorMatchesFile ==
  [][\A t \in Tasks :
       ReadsBody(t) =>
         arcs[loc[t].desc].id = files[FilePath(loc[t].ver, call[t].name)]]_vars

\* a GET answered from the file of the promoted version v2 with the
\* descriptor of v1 still cached
StaleDescriptor ==
  \E t \in Tasks :
    /\ Did(t, "handle") /\ call[t].arg.method = "GET" /\ loc[t].phase = "body"
    /\ loc[t].ver = [kind |-> "Remote", version |-> "v2"]
    /\ FilePath(loc[t].ver, call[t].name) \in DOMAIN files
    /\ <<"Builtin", call[t].name, "v1">> \in DOMAIN files
    /\ arcs[loc[t].desc].id = files[<<"Builtin", call[t].name, "v1">>]
    /\ arcs[loc[t].desc].id # files[FilePath(loc[t].ver, call[t].name)]

---------------------------------------------------------------------------
(* SpecReported: download_update, call after call, against a server whose
   webview-bundle-name and webview-bundle-version headers report any name
   and version, the ones asked for or others *)

ReportedResponses ==
  [name : Names, version : {"v1", "v2"}, integrity : {None, "d2"},
   signature : {None}, data : {"b2"}]

InitReported ==
  /\ builtin = BuiltinApp
  /\ remote = Empty
  /\ files = Put(Empty, <<"Builtin", "app", "v1">>, "b1")
  /\ config \in Configs
  /\ \E r \in ReportedResponses : server = {r}
  /\ origin = Empty
  /\ InitCache /\ InitTasks /\ InitGhosts

BeginReported ==
  /\ \A u \in Tasks : Idle(u)
  /\ \E v \in {None, "v2"} : Begin("t1", MkCall("download_update", "app", v, None))

NextReported ==
  \/ BeginReported
  \/ \E t \in Tasks :
       \/ Download(t)
       \/ DownloadFail(t)
       \/ Verify(t)
       \/ WriteFile(t)
       \/ WriteInsert(t)

SpecReported == InitReported /\ [][NextReported]_vars

\* the files a call wrote: new ones and ones whose bytes changed
WrittenBy(t) ==
  { k \in DOMAIN files : k \notin DOMAIN snap[t].files \/ files[k] # snap[t].files[k] }

\* the manifest entries a call inserted, as <<name, version>>
InsertedBy(t) ==
  { <<b, v>> \in Names \X Versions :
      /\ b \in DOMAIN remote /\ v \in DOMAIN remote[b].versions
      /\ ~(b \in DOMAIN snap[t].remote /\ v \in DOMAIN snap[t].remote[b].versions) }

\* C39: a download_update(name, version) that succeeds installs the bundle
\* under the name asked for, and under the version asked for when one is
\* given: the file it wrote and the manifest entry it inserted carry them,
\* whatever name and version the response headers report.
InstallsRequested ==
  \A t \in Tasks :
    (Did(t, "download_update") /\ ret[t].ok) =>
      LET b == call[t].name
          v == call[t].version
      IN /\ \A k \in WrittenBy(t) : k[2] = b /\ (v # None => k[3] = v)
         /\ \A e \in InsertedBy(t) : e[1] = b /\ (v # None => e[2] = v)
         /\ b \in DOMAIN remote
         /\ v # None => v \in DOMAIN remote[b].versions

\* download_update(app, v2) succeeded against a server that reports lib and
\* v1: the file and the entry are those of lib at v1
InstalledAsReported ==
  /\ Did("t1", "download_update") /\ ret["t1"].ok
  /\ call["t1"].name = "app" /\ call["t1"].version = "v2"
  /\ <<"Remote", "lib", "v1">> \in WrittenBy("t1")
  /\ <<"lib", "v1">> \in InsertedBy("t1")
  /\ "app" \notin DOMAIN remote

\* against a server that reports the name and the version asked for, the
\* file and the entry are those of the request
InstalledAsRequested ==
  /\ Did("t1", "download_update") /\ ret["t1"].ok
  /\ call["t1"].name = "app" /\ call["t1"].version = "v2"
  /\ WrittenBy("t1") = {<<"Remote", "app", "v2">>}
  /\ InsertedBy("t1") = {<<"app", "v2">>}

---------------------------------------------------------------------------
(* The three ways to the bytes of an entry, over SpecCodec *)

\* C34: for a bundle written by BundleWriter and every path, get_data of
\* the bundle read whole (base offset 0 into its data section) returns what
\* get_data and async_get_data of the descriptor return over the written
\* file (base offset 17 + index_size + 4), and all three return None
\* exactly when the path is not in the index.
GetDataAgree ==
  \A t \in Tasks :
    ReadBack(t) =>
      /\ ret[t].ok
      /\ ret[t].val.whole = Ok(ret[t].val.data)
      /\ ret[t].val.async = Ok(ret[t].val.data)
      /\ (ret[t].val.data = NoData)
           <=> (Utf8(call[t].arg.path) \notin DOMAIN ret[t].val.index)
      /\ (ret[t].val.data = NoData) <=> (call[t].arg.path \notin PathsOf(call[t].arg.id))

\* the second entry of a two-entry bundle read the three ways, and a path
\* outside the bundle
GetDataAgreeWitness ==
  /\ \E t \in Tasks :
       /\ ReadBack(t) /\ call[t].arg.id = "b3" /\ ret[t].ok
       /\ ret[t].val.index[Utf8(call[t].arg.path)].offset > 0
       /\ ret[t].val.whole = Ok(BodyOf("b3", call[t].arg.path))
       /\ ret[t].val.async = ret[t].val.whole
       /\ ret[t].val.index_size = 53

---------------------------------------------------------------------------
(* SpecInstall: write_remote_bundle and download_update, call after call,
   with the file operations failing and the call dropped at its suspension
   points.  The remote tier is empty, or already lists the version that is
   installed. *)

InstallOps == {"write_remote_bundle", "download_update"}

\* File::create fails and leaves no file, or the write fails after the
\* file was created and truncated: what was written so far stays
WriteFileFail(t) ==
  /\ pc[t] = "w_file"
  /\ \/ UNCHANGED files
     \/ files' = Put(files, <<"Remote", loc[t].info.name, loc[t].info.version>>, Corrupt)
  /\ loc' = [loc EXCEPT ![t].phase = "w_file"]
  /\ Return(t, Err("Io"))
  /\ UNCHANGED <<remote, builtin, cache, setup, call, snap, ghosts>>

\* the future of the call is dropped at a suspension point: while the
\* response is awaited, between the stages, while the file is written
\* (before File::create, or with the file created and part of it written),
\* or before insert_entry has the lock
Cancel(t) ==
  /\ pc[t] \in {"du_download", "du_verify", "w_file", "w_insert"}
  /\ call[t].op \in InstallOps
  /\ \/ UNCHANGED files
     \/ /\ pc[t] = "w_file"
        /\ files' = Put(files, <<"Remote", loc[t].info.name, loc[t].info.version>>, Corrupt)
  /\ loc' = [loc EXCEPT ![t].phase = pc[t]]
  /\ Return(t, Err("Cancelled"))
  /\ UNCHANGED <<remote, builtin, cache, setup, call, snap, ghosts>>

InitInstall ==
  /\ builtin = BuiltinApp
  /\ \/ /\ remote = Empty
        /\ files = Put(Empty, <<"Builtin", "app", "v1">>, "b1")
     \/ /\ remote = RemoteAppBoth
        /\ files = Put(Put(Put(Empty, <<"Builtin", "app", "v1">>, "b1"),
                           <<"Remote", "app", "v1">>, "b1"),
                       <<"Remote", "app", "v2">>, "b3")
  /\ config \in Configs
  /\ \E r \in Responses : server = {r}
  /\ origin = Empty
  /\ InitCache /\ InitTasks /\ InitGhosts

BeginInstall ==
  /\ \A u \in Tasks : Idle(u)
  /\ \/ \E v \in {None, "v2"} : Begin("t1", MkCall("download_update", "app", v, None))
     \/ Begin("t1", MkCall("write_remote_bundle", "app", "v2", Offer("b2")))

NextInstall ==
  \/ BeginInstall
  \/ \E t \in Tasks :
       \/ Download(t)
       \/ DownloadFail(t)
       \/ Verify(t)
       \/ WriteFile(t)
       \/ WriteFileFail(t)
       \/ WriteInsert(t)
       \/ Cancel(t)

SpecInstall == InitInstall /\ [][NextInstall]_vars

\* an install that ended without reaching insert_entry
Stopped(t) == pc[t] = "done" /\ call[t].op \in InstallOps /\ ~ret[t].ok

\* a file the remote manifest lists no version for
Orphan(k) ==
  ~(k[1] = "Remote" /\ k[2] \in DOMAIN remote /\ k[3] \in DOMAIN remote[k[2]].versions)

\* C31: the bundle file is written before the manifest entry is inserted:
\* when creating or writing the file fails, or the call is cancelled before
\* insert_entry, the remote manifest is as it was and at most an orphan
\* file remains; a download cancelled before the installation changes
\* neither the files nor the manifest.
FailedInstallLeavesOrphan ==
  \A t \in Tasks :
    Stopped(t) =>
      /\ remote = snap[t].remote
      /\ \A k \in WrittenBy(t) : Orphan(k)
      /\ loc[t].phase \in {"du_download", "du_verify"} => files = snap[t].files

\* an install that ended before insert_entry left the remote manifest as it
\* was and changed no file other than the one of the version it installs
FailedInstallKeepsManifest ==
  \A t \in Tasks :
    Stopped(t) =>
      /\ remote = snap[t].remote
      /\ \A k \in WrittenBy(t) :
           k = <<"Remote", loc[t].info.name, loc[t].info.version>>
      /\ loc[t].phase \in {"du_download", "du_verify"} => files = snap[t].files

\* the manifest changes only in the step of insert_entry, with the file of
\* the version written
FileBeforeEntry ==
  [][remote' # remote =>
       \E t \in Tasks :
         /\ pc[t] = "w_insert" /\ pc'[t] = "done"
         /\ <<"Remote", loc[t].info.name, loc[t].info.version>> \in DOMAIN files
         /\ files[<<"Remote", loc[t].info.name, loc[t].info.version>>] = loc[t].info.data]_vars

\* a write that failed midway over the file of a version the manifest
\* lists: the manifest is as it was and the listed file is torn
ListedFileTorn ==
  \E t \in Tasks :
    /\ Stopped(t) /\ loc[t].phase = "w_file"
    /\ remote = snap[t].remote
    /\ "app" \in DOMAIN remote /\ "v2" \in DOMAIN remote["app"].versions
    /\ <<"Remote", "app", "v2">> \in DOMAIN snap[t].files
    /\ snap[t].files[<<"Remote", "app", "v2">>] = "b3"
    /\ files[<<"Remote", "app", "v2">>] = Corrupt

\* a call cancelled between the file and insert_entry with the remote tier
\* empty: the file is an orphan
OrphanLeft ==
  \E t \in Tasks :
    /\ Stopped(t) /\ loc[t].phase = "w_insert"
    /\ remote = Empty
    /\ WrittenBy(t) = {<<"Remote", "app", "v2">>}

---------------------------------------------------------------------------
(* SpecSaves: save() of one task overlapping the mutations and the save()
   of another, on a file system whose writes do not fail *)

InitSaves ==
  /\ remote \in {Empty, RemoteApp}
  /\ builtin = Empty
  /\ files = Put(Empty, ManifestFile, Json(remote))
  /\ origin = Empty
  /\ InitCache /\ InitTasks /\ InitGhosts /\ NoSetup

SavesCalls ==
  { MkCall("insert_entry", "app", "v2", Plain),
    MkCall("update_current_version", "app", "v2", None),
    MkCall("remove_entry", "app", "v1", None),
    MkCall("save", None, None, None) }

\* each task saves once: t1 after any number of mutations, t2 at any time
BeginSaves ==
  \/ /\ call["t1"].op # "save"
     /\ \E c \in SavesCalls : Begin("t1", c)
  \/ /\ pc["t2"] = "idle"
     /\ Begin("t2", MkCall("save", None, None, None))

NextSaves ==
  \/ BeginSaves
  \/ \E t \in Tasks :
       \/ InsertEntry(t)
       \/ UpdateCheck(t)
       \/ UpdateWrite(t)
       \/ RemoveEntry(t)
       \/ SaveSerialize(t)
       \/ SaveCreate(t)
       \/ SaveWrite(t)

SpecSaves == InitSaves /\ [][NextSaves]_vars

\* C38: once the save() calls issued concurrently have all completed, with
\* no mutation after the last of them, the manifest file equals the
\* serialization of the manifest in memory, for every interleaving of the
\* saves with insert_entry, update_current_version and remove_entry.
SavesConverge ==
  (\A t \in Tasks : Did(t, "save") /\ ret[t].ok)
    => files[ManifestFile] = Json(remote)

\* two saves completed, the later one begun after the last mutation, and
\* the file holds the complete document of the manifest before it
StaleSaveLast ==
  /\ \A t \in Tasks : Did(t, "save") /\ ret[t].ok
  /\ files[ManifestFile] = loc["t2"].out.bytes
  /\ loc["t1"].out.bytes = Json(remote)
  /\ loc["t2"].out.bytes # Json(remote)

\* two saves completed and the file holds neither document: pieces of one
\* written over the other
SavesMixed ==
  /\ \A t \in Tasks : Did(t, "save") /\ ret[t].ok
  /\ \A t \in Tasks : files[ManifestFile] # loc[t].out.bytes

\* a save with no other save under way, completed: the file holds the
\* manifest in memory unless a mutation came after the save read it
SaveAlone ==
  (Did("t1", "save") /\ ret["t1"].ok /\ pc["t2"] = "idle")
    => files[ManifestFile] = Json(remote)

---------------------------------------------------------------------------
(* SpecLoad: the first accesses of a manifest, two tasks at a time, over a
   manifest file that is missing, holds a document, or holds no JSON, and
   that others replace meanwhile *)

EmptyCell == [set |-> FALSE, permit |-> None]

\* serde_json::from_slice of the file: the manifest the bytes are the
\* document of, a JSON error for any other bytes
ParseManifest(raw) ==
  LET hit == { m \in ManifestEntries({"app"}) : Json(m) = raw }
  IN IF hit = {} THEN Err("Json") ELSE Ok(CHOOSE m \in hit : TRUE)

\* get_or_try_init that runs the initializer without its permit
MGetNoPermit(t) ==
  /\ pc[t] = "m_get"
  /\ IF manifest_data.set THEN Goto(t, "m_read") ELSE Goto(t, "m_exists")
  /\ UNCHANGED <<store, cache, setup, call, loc, snap, ghosts>>

\* load: data.get_or_try_init.  A cell that is set answers at once; else the
\* caller waits for the permit of the cell and runs the initializer
MGet(t) ==
  /\ pc[t] = "m_get"
  /\ IF manifest_data.set
       THEN Goto(t, "m_read") /\ UNCHANGED manifest_data
       ELSE /\ manifest_data.permit = None
            /\ manifest_data' = [manifest_data EXCEPT !.permit = t]
            /\ Goto(t, "m_exists")
  /\ UNCHANGED <<store, cache, config, server, local_cache, call, loc, snap, ghosts>>

\* the initializer, tokio::fs::try_exists: no file gives the default
\* manifest; an I/O error leaves the cell empty and frees the permit
MExists(t) ==
  /\ pc[t] = "m_exists"
  /\ \/ /\ manifest_data' = EmptyCell
        /\ Return(t, Err("Io"))
        /\ UNCHANGED remote
     \/ /\ ManifestFile \notin DOMAIN files
        /\ manifest_data' = LoadedCell
        /\ remote' = Empty
        /\ Goto(t, "m_read")
     \/ /\ ManifestFile \in DOMAIN files
        /\ Goto(t, "m_file")
        /\ UNCHANGED <<remote, manifest_data>>
  /\ UNCHANGED <<builtin, files, cache, config, server, local_cache, call, loc, snap, ghosts>>

\* the initializer, tokio::fs::read and serde_json::from_slice
MFile(t) ==
  /\ pc[t] = "m_file"
  /\ \/ /\ manifest_data' = EmptyCell
        /\ Return(t, Err("Io"))
        /\ UNCHANGED remote
     \/ /\ ManifestFile \in DOMAIN files
        /\ LET data == ParseManifest(files[ManifestFile])
           IN IF data.ok
                THEN /\ manifest_data' = LoadedCell
                     /\ remote' = data.val
                     /\ Goto(t, "m_read")
                ELSE /\ manifest_data' = EmptyCell
                     /\ Return(t, data)
                     /\ UNCHANGED remote
  /\ UNCHANGED <<builtin, files, cache, config, server, local_cache, call, loc, snap, ghosts>>

\* list_entries: the entries read under the read lock
MEntries(t) ==
  /\ pc[t] = "m_read"
  /\ Return(t, Ok(remote))
  /\ UNCHANGED <<store, cache, setup, call, loc, snap, ghosts>>

\* the contents others give the manifest file: two documents, and bytes
\* that are no document
ManifestDocs == {Json(RemoteApp), Json(RemoteAppBoth), <<"{">>}

\* the file is replaced or removed from outside
ReplaceFile ==
  /\ \/ \E raw \in ManifestDocs : files' = Put(Empty, ManifestFile, raw)
     \/ files' = Empty
  /\ files' # files
  /\ UNCHANGED <<remote, builtin, cache, setup, pc, call, loc, ret, snap, ghosts>>

InitLoad ==
  /\ remote = Empty
  /\ builtin = Empty
  /\ files \in {Empty} \cup { Put(Empty, ManifestFile, raw) : raw \in ManifestDocs }
  /\ descriptors = Empty /\ cells = Empty /\ arcs = Empty
  /\ manifest_data = EmptyCell
  /\ local_cache = Empty
  /\ config = NoConfig /\ server = {}
  /\ origin = Empty
  /\ InitTasks /\ InitGhosts

BeginLoad == \E t \in Tasks : Begin(t, MkCall("list_entries", None, None, None))

NextLoad ==
  \/ BeginLoad
  \/ ReplaceFile
  \/ \E t \in Tasks :
       \/ MGet(t)
       \/ MExists(t)
       \/ MFile(t)
       \/ MEntries(t)

SpecLoad == InitLoad /\ [][NextLoad]_vars

\* task t takes the step from a to b
Steps(t, a, b) == pc[t] = a /\ pc'[t] = b

\* an access that was answered
Listed(t) == Did(t, "list_entries") /\ ret[t].ok

\* C32: a manifest is loaded at most once, on the first access: with no
\* file the state in memory is the empty default manifest, with a file it
\* is the parsed file; a load that fails (I/O or JSON error) leaves the
\* manifest unloaded, so the next access loads again; concurrent first
\* accesses observe one and the same loaded state.
LoadOnce ==
  [][/\ manifest_data.set => (manifest_data'.set /\ remote' = remote)
     /\ \A t \in Tasks :
          /\ Steps(t, "m_exists", "m_read") =>
               /\ ManifestFile \notin DOMAIN files
               /\ manifest_data'.set /\ remote' = Empty
          /\ Steps(t, "m_file", "m_read") =>
               /\ ManifestFile \in DOMAIN files
               /\ manifest_data'.set /\ Json(remote') = files[ManifestFile]
          /\ (Steps(t, "m_exists", "done") \/ Steps(t, "m_file", "done")) =>
               /\ ~ret'[t].ok
               /\ manifest_data' = EmptyCell
          /\ Steps(t, "m_read", "done") =>
               /\ ret'[t] = Ok(remote)
               /\ \A u \in Tasks : Listed(u) => ret[u] = ret'[t]
          /\ Steps(t, "m_get", "m_read") => manifest_data.set
          /\ Steps(t, "m_get", "m_exists") => ~manifest_data.set]_vars

\* two accesses answered with the same loaded manifest, after the file was
\* replaced by another document
LoadOnceWitness ==
  /\ \A t \in Tasks : Listed(t) /\ ret[t].val = RemoteApp
  /\ manifest_data.set
  /\ ManifestFile \in DOMAIN files
  /\ files[ManifestFile] = Json(RemoteAppBoth)

\* an access that failed on a file that is no JSON, and the next one
\* answered with the manifest loaded from the file that replaced it
LoadRetried ==
  /\ Did("t1", "list_entries") /\ RetEq(ret["t1"], Err("Json"))
  /\ Listed("t2") /\ ret["t2"].val = RemoteApp

\* an access answered with the default manifest: there was no file
LoadedDefault ==
  /\ Listed("t1") /\ ret["t1"].val = Empty
  /\ pc["t2"] = "idle"
  /\ files = Empty

---------------------------------------------------------------------------
(* SpecLocal: LocalProtocol::handle, two requests at a time, against an
   upstream server that answers as it likes *)

\* the hosts of MappingLocalUriResolver
Hosts == [x \in {"app.wvb"} |-> "http://localhost:3000/"]

NoQuery == "None"

\* get_localhost_uri: the mapped origin without its trailing slash, the
\* path, and the query when there is one
LocalhostUri(uri) ==
  IF uri.host \notin DOMAIN Hosts THEN None
  ELSE "http://localhost:3000" \o uri.path
       \o (IF uri.query = NoQuery THEN "" ELSE "?" \o uri.query)

ETag == [x \in {"etag"} |-> "v1"]
NoResponse == [status |-> 0, headers |-> NoHeaders, body |-> <<>>]

\* the answers of the upstream server
Upstream ==
  { [status |-> 200, headers |-> ETag, body |-> <<1>>],
    [status |-> 200, headers |-> NoHeaders, body |-> <<2>>],
    [status |-> 304, headers |-> ETag, body |-> <<>>],
    [status |-> 404, headers |-> NoHeaders, body |-> <<>>] }

\* handle: the upstream URL of the request, CannotResolveLocalHost for a
\* host without a mapping
LResolve(t) ==
  /\ pc[t] = "lp_resolve"
  /\ IF LocalhostUri(call[t].arg) = None
       THEN Return(t, Err("CannotResolveLocalHost"))
       ELSE Goto(t, "lp_send")
  /\ UNCHANGED <<store, cache, setup, call, loc, snap, ghosts>>

\* the request is sent and answered; a 304 for a URL the cache holds is
\* answered from the cache
LSend(t) ==
  /\ pc[t] = "lp_send"
  /\ LET url == LocalhostUri(call[t].arg)
     IN \/ Return(t, Err("Http")) /\ UNCHANGED loc
        \/ \E r \in Upstream :
             IF r.status = 304 /\ url \in DOMAIN local_cache
               THEN /\ loc' = [loc EXCEPT ![t].received = r, ![t].phase = "cached"]
                    /\ Return(t, Ok(local_cache[url]))
               ELSE /\ loc' = [loc EXCEPT ![t].received = r]
                    /\ Goto(t, "lp_insert")
  /\ UNCHANGED <<store, cache, setup, call, snap, ghosts>>

\* r.bytes(), then cache.insert(url, response)
LInsert(t) ==
  /\ pc[t] = "lp_insert"
  /\ \/ /\ Return(t, Err("Http"))
        /\ UNCHANGED local_cache
     \/ /\ local_cache' = Put(local_cache, LocalhostUri(call[t].arg), loc[t].received)
        /\ Goto(t, "lp_get")
  /\ UNCHANGED <<store, cache, config, server, manifest_data, call, loc, snap, ghosts>>

\* cache.get(&url).unwrap(), and the response built from it
LGet(t) ==
  /\ pc[t] = "lp_get"
  /\ Return(t, Ok(local_cache[LocalhostUri(call[t].arg)]))
  /\ UNCHANGED <<store, cache, setup, call, loc, snap, ghosts>>

LocalCalls ==
  { MkCall("local_handle", None, None, [host |-> h, path |-> "/index.html", query |-> q]) :
      h \in {"app.wvb", "other.wvb"}, q \in {NoQuery, "v=1"} }

InitLocal ==
  /\ remote = Empty /\ builtin = Empty /\ files = Empty
  /\ origin = Empty
  /\ InitCache /\ InitTasks /\ InitGhosts /\ NoSetup

BeginLocal == \E t \in Tasks : \E c \in LocalCalls : Begin(t, c)

NextLocal ==
  \/ BeginLocal
  \/ \E t \in Tasks :
       \/ LResolve(t)
       \/ LSend(t)
       \/ LInsert(t)
       \/ LGet(t)

SpecLocal == InitLocal /\ [][NextLocal]_vars

\* requests handled one after another
BeginLocalSeq ==
  /\ \A u \in Tasks : Idle(u)
  /\ \E c \in LocalCalls : Begin("t1", c)

NextLocalSeq ==
  \/ BeginLocalSeq
  \/ \E t \in Tasks :
       \/ LResolve(t)
       \/ LSend(t)
       \/ LInsert(t)
       \/ LGet(t)

SpecLocalSeq == InitLocal /\ [][NextLocalSeq]_vars

\* C35: when the upstream server answers 304 for a URL whose earlier
\* response is in the cache, the response returned has the cached status,
\* headers and body; every other upstream response replaces the cache entry
\* of that URL, path and query included, and is returned as received; a
\* host without a mapping fails with CannotResolveLocalHost and no request
\* is sent.
ProxyContract ==
  [][\A t \in Tasks :
       LET url == LocalhostUri(call[t].arg)
       IN /\ Steps(t, "lp_resolve", "done") =>
               /\ call[t].arg.host \notin DOMAIN Hosts
               /\ RetEq(ret'[t], Err("CannotResolveLocalHost"))
               /\ loc'[t].received = NoResponse
          /\ Steps(t, "lp_resolve", "lp_send") => call[t].arg.host \in DOMAIN Hosts
          /\ (Steps(t, "lp_send", "done") /\ ret'[t].ok) =>
               /\ loc'[t].received.status = 304 /\ url \in DOMAIN local_cache
               /\ ret'[t] = Ok(local_cache[url])
               /\ local_cache' = local_cache
          /\ Steps(t, "lp_send", "lp_insert") =>
               ~(loc'[t].received.status = 304 /\ url \in DOMAIN local_cache)
          /\ Steps(t, "lp_insert", "lp_get") =>
               /\ local_cache' = Put(local_cache, url, loc[t].received)
          /\ Steps(t, "lp_get", "done") => ret'[t] = Ok(loc[t].received)]_vars

\* a request answered with the response another request received for the
\* same URL
AnswerOfAnother ==
  \E t \in Tasks :
    /\ Did(t, "local_handle") /\ ret[t].ok /\ loc[t].phase # "cached"
    /\ ret[t].val # loc[t].received
    /\ \E u \in Tasks \ {t} :
         /\ call[u] = call[t] /\ loc[u].received = ret[t].val

\* a 304 answered with the response cached for the URL
AnsweredFromCache ==
  \E t \in Tasks :
    /\ Did(t, "local_handle") /\ ret[t].ok /\ loc[t].phase = "cached"
    /\ loc[t].received.status = 304
    /\ ret[t].val = [status |-> 200, headers |-> ETag, body |-> <<1>>]

---------------------------------------------------------------------------
(* SpecLive: manifest reads, mutations and saves and descriptor loads and
   unloads of two tasks, every one issued while the other's is under way,
   under fair scheduling and with I/O that ends *)

\* an error that leaves the call with the permit of the cell
InitLive ==
  /\ builtin = BuiltinAppLib
  /\ remote = Empty
  /\ \E lib \in {"b2", Corrupt} :
       files = Put(Put(Put(Empty, <<"Builtin", "app", "v1">>, "b1"),
                       <<"Builtin", "lib", "v1">>, lib),
                   ManifestFile, Json(Empty))
  /\ origin = Empty
  /\ InitCache /\ InitTasks /\ InitGhosts /\ NoSetup

\* the calls of a task that are under way and will allocate a descriptor
Loads == { t \in Tasks : ~Idle(t) /\ call[t].op = "load_descriptor" }

\* the calls of the two tasks; the mutation removes a version the manifest
\* does not list
LiveCalls(t) ==
  IF t = "t1"
    THEN { MkCall("save", None, None, None),
           MkCall("load_descriptor", "app", None, None) }
    ELSE { MkCall("remove_entry", "app", "v2", None),
           MkCall("load_descriptor", "app", None, None),
           MkCall("load_descriptor", "lib", None, None),
           MkCall("unload_descriptor", "app", None, None) }

\* a load begins while a reference is left for it and the file of its name
\* was not read MaxReads times; an unload while MaxUnloads is not reached
BeginLive(t) ==
  \E c \in LiveCalls(t) :
    /\ c.op = "load_descriptor" =>
         /\ Cardinality(DOMAIN arcs) + Cardinality(Loads) < MaxRefs
         /\ attempts[c.name].reads < MaxReads
    /\ c.op = "unload_descriptor" => epoch[c.name] < MaxUnloads
    /\ Begin(t, c)

\* the steps of the call of task t
StepLive(t) ==
  \/ LdGet(t)
  \/ LdEntry(t)
  \/ LdInit(t)
  \/ Lv(t)
  \/ OpenInit(t)
  \/ Unload(t)
  \/ RemoveEntry(t)
  \/ SaveSerialize(t)
  \/ SaveCreate(t)
  \/ SaveWrite(t)

NextLive == \E t \in Tasks : BeginLive(t) \/ StepLive(t)

\* every task that can take a step takes one; the permit of a cell goes to
\* its waiters in turn (tokio's semaphore is fair)
FairLive ==
  \A t \in Tasks : WF_vars(StepLive(t)) /\ SF_vars(LdInit(t))

SpecLive == InitLive /\ [][NextLive]_vars /\ FairLive

\* task u runs the initializer of a descriptor cell
Initializing(u) == ~Idle(u) /\ call[u].op = "load_descriptor" /\ loc[u].phase = "init"

\* unload_descriptor, and a load of a name no initializer is running for,
\* can take their step
NoWaiting ==
  \A t \in Tasks :
    /\ pc[t] = "unload" => ENABLED Unload(t)
    /\ pc[t] = "ld_get" => ENABLED LdGet(t)
    /\ pc[t] = "ld_entry" => ENABLED LdEntry(t)
    /\ ( /\ pc[t] = "ld_init"
         /\ \A u \in Tasks \ {t} : Initializing(u) => call[u].name # call[t].name )
         => ENABLED LdInit(t)

UnloadDuringInit ==
  /\ Initializing("t1") /\ pc["t2"] = "unload"
  /\ call["t1"].name = call["t2"].name

=============================================================================
